---- MODULE Spec2Model ----
(***************************************************************************)
(* Transfer scheduling engine of the S3 desktop client.                    *)
(*                                                                         *)
(*   services/transfer_manager.py  TransferManager  (control thread)       *)
(*   workers/transfer_worker.py    TransferWorker   (one QThread per task) *)
(*   services/s3_client.py         S3Client         (transfer settings and  *)
(*                                                   the object operations) *)
(*   ui/main_window.py             MainWindow       (the handlers that     *)
(*                                                   enqueue, change the   *)
(*                                                   bucket, and cache     *)
(*                                                   listings)             *)
(*   ui/transfers_drawer.py        TransfersDrawer  (the rows of the       *)
(*                                                   transfers table)      *)
(*   workers/s3_list_worker.py     S3ListWorker     (one listing)          *)
(*                                                                         *)
(* The manager lives on the GUI thread.  Every worker signal is emitted    *)
(* from another thread, so Qt posts it to the GUI thread's event queue and *)
(* the connected slot runs later.  mailbox[w] holds the posted signals of  *)
(* worker w, oldest first: Qt keeps the posting order, and between two     *)
(* workers the posting order is whatever the thread scheduler makes it.    *)
(* A task is identified by the seq number _enqueue gives it; the worker    *)
(* created for the task carries the same number.                           *)
(***************************************************************************)
EXTENDS Integers, Sequences, FiniteSets, TLC

\* ---------------------------------------------------------------- bounds
\* Number of _enqueue calls in one behaviour.
MaxTasks == 3
\* Number of progress callbacks the transfer library makes in one behaviour.
MaxCb == 2
\* Number of _enqueue calls in a behaviour that has progress callbacks.
MaxCbTasks == 1

\* ------------------------------------------------------ program constants
PRI_OPEN == 0
PRI_DOWNLOAD == 1
PRI_UPLOAD == 2
\* TransferManager(self.s3, max_parallel=2)
max_parallel == 2
\* multipart_threshold = 32 MiB, in units of 16 MiB: at and above it the
\* transfer library moves the parts on several threads (use_threads=True).
multipart_threshold == 2

Seqs == 0 .. (MaxTasks - 1)
Tids == 1 .. MaxTasks
\* Threads of the transfer library that may run the progress callback of one
\* transfer at the same time (max_concurrency = 20; two are enough to race).
CbThreads == {1, 2}
NoTid == 0
\* Object and file sizes, in units of 16 MiB: empty, below the multipart
\* threshold, at the threshold.
Sizes == {0, 1, 2}
\* bytes_amount of one progress callback, in the same unit
Amounts == {1}

\* ---------------------------------------------------------------- _QueueItem
\* priority of the three enqueue entry points
PriorityOf(mode) ==
    IF mode = "OPEN" THEN PRI_OPEN
    ELSE IF mode = "DOWNLOAD" THEN PRI_DOWNLOAD
    ELSE PRI_UPLOAD

QueueItem(priority, seq, tid, mode) ==
    [priority |-> priority, seq |-> seq, tid |-> tid, mode |-> mode]

\* A plausible slip: the heap ordered by age alone.
ItemLessBySeqOnly(a, b) == a.seq < b.seq

\* A plausible slip: newest first inside one class.
ItemLessLifo(a, b) ==
    \/ a.priority < b.priority
    \/ a.priority = b.priority /\ a.seq > b.seq

\* dataclass(order=True): field-wise tuple comparison, priority then seq
\* (seq is unique, so the later fields never decide).
ItemLess(a, b) ==
    \/ a.priority < b.priority
    \/ a.priority = b.priority /\ a.seq < b.seq

\* ---------------------------------------------------------------- heapq
\* The heap is a Python list; At/Put use its 0-based positions.
At(h, i) == h[i + 1]
Put(h, i, x) == [h EXCEPT ![i + 1] = x]

RECURSIVE SiftDownLoop(_, _, _, _)
SiftDownLoop(h, startpos, pos, newitem) ==
    IF pos > startpos
    THEN LET parentpos == (pos - 1) \div 2
             parent == At(h, parentpos)
         IN  IF ItemLess(newitem, parent)
             THEN SiftDownLoop(Put(h, pos, parent), startpos, parentpos, newitem)
             ELSE Put(h, pos, newitem)
    ELSE Put(h, pos, newitem)

\* heapq._siftdown(heap, startpos, pos)
SiftDown(h, startpos, pos) == SiftDownLoop(h, startpos, pos, At(h, pos))

RECURSIVE SiftUpLoop(_, _, _, _)
SiftUpLoop(h, startpos, pos, newitem) ==
    LET endpos == Len(h)
        childpos == 2 * pos + 1
        rightpos == childpos + 1
        pick == IF rightpos < endpos /\ ~ItemLess(At(h, childpos), At(h, rightpos))
                THEN rightpos ELSE childpos
    IN  IF childpos < endpos
        THEN SiftUpLoop(Put(h, pos, At(h, pick)), startpos, pick, newitem)
        ELSE SiftDown(Put(h, pos, newitem), startpos, pos)

\* heapq._siftup(heap, pos)
SiftUp(h, pos) == SiftUpLoop(h, pos, pos, At(h, pos))

\* heapq.heappush(self._pq, item)
HeapPush(h, item) == SiftDown(Append(h, item), 0, Len(h))

\* heapq.heappop(self._pq): the item returned
HeapPopItem(h) == h[1]

\* heapq.heappop(self._pq): the heap left behind
HeapPopRest(h) ==
    LET lastelt == h[Len(h)]
        rest == SubSeq(h, 1, Len(h) - 1)
    IN  IF rest = <<>> THEN rest ELSE SiftUp(Put(rest, 0, lastelt), 0)

\* ---------------------------------------------------------------- state
VARIABLES
    pq,          \* TransferManager._pq: the heap, a list of _QueueItem
    seqNext,     \* the next value of itertools.count() in _seq
    active,      \* TransferManager.active: tid -> worker
    allWorkers,  \* TransferManager._all_workers
    paused,      \* TransferManager._paused
    ctl,         \* what the GUI thread is inside of: idle, or shutdown()'s loop
    mailbox,     \* per worker: its signals posted to the GUI thread, oldest first
    task,        \* per seq: the tid and mode given at _enqueue
    wk,          \* per worker: the fields of TransferWorker and where run() is
    cb,          \* per worker and library thread: an invocation of _cb
    started,     \* the seqs the latest step called w.start() for, in order
    emitted,     \* the manager signals emitted by the latest step, in order
    lastPct,     \* per tid: the latest percent other than -1 in transfer_updated
    ncb,         \* how many times the transfer library has called _cb in
                 \* this behaviour
    terms,       \* per tid: how many transfer_done and transfer_error were emitted
    dest,        \* per download worker: the file at its local_path
    gcalls,      \* per worker: the S3Client methods its run() has called, in order
    openAfter,   \* MainWindow.open_after_done: the tids to open when done
    rows,        \* TransfersDrawer's table: per tid the Progress and Status cells
    finals       \* per tid: the Done, Failed and Cancelled statuses of its
                 \* transfer_updated events so far, in order

\* S3Client's object operations, and the bucket they act on
VARIABLES
    store,       \* the bucket: key -> content, for the keys that exist
    before,      \* the bucket as it was when the latest S3Client call was made
    op,          \* the S3Client call in progress: its arguments, locals, position
    calls,       \* the gateway calls the latest S3Client call issued, in order
    result,      \* how the latest S3Client call ended
    made         \* the marker keys the create_folder calls so far have written

\* MainWindow's listing cache and what its handlers work with, for the one
\* bucket the user has chosen
VARIABLES
    cache,           \* MainWindow.cache: prefix -> the listing stored for it
    current_prefix,  \* MainWindow.current_prefix
    table,           \* the rows of the table: current_folders, current_files
    load,            \* the S3ListWorker whose token is _nav_token, if any
    clipboard,       \* clipboard_items and clipboard_cut
    gui,             \* the MainWindow handler that is inside an S3Client call
    mut,             \* the mutations completed so far, and what the latest changed
    nav,             \* _nav_token, the S3ListWorkers running, and what each view shows
    opened           \* per task made by open_key: its key and its local_path

tvars == <<pq, seqNext, active, allWorkers, paused, ctl, mailbox, task, wk, cb,
           started, emitted, lastPct, ncb, terms, dest, gcalls, openAfter, rows, finals>>
svars == <<store, before, op, calls, result, made>>
wvars == <<cache, current_prefix, table, load, clipboard, gui, mut, nav>>
mvars == <<wvars, opened>>
vars == <<tvars, svars, mvars>>

Range(f) == {f[i] : i \in DOMAIN f}

\* ---------------------------------------------------------------- worker object
\* worker_mode = "download" if mode in ("DOWNLOAD", "OPEN") else "upload"
WorkerMode(mode) == IF mode \in {"DOWNLOAD", "OPEN"} THEN "download" ELSE "upload"

\* _total is the answer of head_object or os.path.getsize.  Only _cb reads it,
\* and the model draws the answer when _cb first does: Unread until then.
Unread == -1

NoWorker ==
    [pc |-> "none", mode |-> "", total |-> Unread, seen |-> 0, last |-> 0,
     cancel |-> FALSE, intr |-> FALSE]

\* TransferWorker.__init__ followed by start(): the thread is about to enter run()
NewWorker(wmode) ==
    [pc |-> "start", mode |-> wmode, total |-> Unread, seen |-> 0, last |-> 0,
     cancel |-> FALSE, intr |-> FALSE]

\* The thread has left run(): nothing reads the worker's fields any more.
EndedWorker == [NoWorker EXCEPT !.pc = "ended"]

IdleCb == [pc |-> "idle", amt |-> 0, loaded |-> 0, pct |-> 0]

\* QThread.isRunning(): from start() until run() has returned
IsRunning(w) == wk[w].pc \in {"start", "gw"}

\* ---------------------------------------------------------------- signals
Updated(tid, mode, pct, status) ==
    [sig |-> "transfer_updated", tid |-> tid, mode |-> mode, pct |-> pct,
     status |-> status]
Done(tid) ==
    [sig |-> "transfer_done", tid |-> tid, mode |-> "", pct |-> -1, status |-> ""]
Error(tid, msg) ==
    [sig |-> "transfer_error", tid |-> tid, mode |-> "", pct |-> -1, status |-> msg]

\* a worker signal in flight: p is the int argument, s the str argument
Msg(w, sig, p, s) == [w |-> w, sig |-> sig, p |-> p, s |-> s]

RECURSIVE PctAfter(_, _)
\* lastPct after the events evts were emitted
PctAfter(lp, evts) ==
    IF evts = <<>> THEN lp
    ELSE LET e == Head(evts)
         IN  PctAfter(IF e.sig = "transfer_updated" /\ e.pct # -1
                      THEN [lp EXCEPT ![e.tid] = e.pct] ELSE lp,
                      Tail(evts))

RECURSIVE TermsAfter(_, _)
\* terms after the events evts were emitted
TermsAfter(tm, evts) ==
    IF evts = <<>> THEN tm
    ELSE LET e == Head(evts)
         IN  TermsAfter(IF e.sig = "transfer_done"
                        THEN [tm EXCEPT ![e.tid].done = @ + 1]
                        ELSE IF e.sig = "transfer_error"
                        THEN [tm EXCEPT ![e.tid].err = @ + 1]
                        ELSE tm,
                        Tail(evts))

\* the status texts with which the manager reports how a task ended
TerminalStatuses == {"Done", "Failed", "Cancelled"}

RECURSIVE FinalsAfter(_, _)
\* finals after the events evts were emitted
FinalsAfter(fn, evts) ==
    IF evts = <<>> THEN fn
    ELSE LET e == Head(evts)
         IN  FinalsAfter(IF e.sig = "transfer_updated" /\ e.status \in TerminalStatuses
                         THEN [fn EXCEPT ![e.tid] = Append(@, e.status)] ELSE fn,
                         Tail(evts))

\* ---------------------------------------------------------------- TransfersDrawer
\* upsert(transfer_id, mode, bucket, key, progress, status): a new row shows
\* str(max(0, progress)); an existing row takes progress only if progress >= 0
upsert(rw, tid, progress, status) ==
    IF tid \notin DOMAIN rw
    THEN [t \in (DOMAIN rw) \cup {tid} |->
            IF t = tid
            THEN [progress |-> IF progress > 0 THEN progress ELSE 0, status |-> status]
            ELSE rw[t]]
    ELSE [rw EXCEPT ![tid] = [progress |-> IF progress >= 0 THEN progress ELSE @.progress,
                              status |-> status]]

\* MainWindow.on_transfer_updated: row_progress = progress if progress >= 0 else 0
on_transfer_updated(rw, e) ==
    LET row_progress == IF e.pct >= 0 THEN e.pct ELSE 0
    IN  upsert(rw, e.tid, row_progress, e.status)

\* MainWindow.on_transfer_error: upsert(tid, "ERROR", "", "", 0, msg)
on_transfer_error(rw, e) == upsert(rw, e.tid, 0, e.status)

RECURSIVE RowsAfter(_, _)
\* the table after MainWindow's slots have handled the events evts: the slots
\* are connected on the manager's own thread and run inside emit()
RowsAfter(rw, evts) ==
    IF evts = <<>> THEN rw
    ELSE LET e == Head(evts)
         IN  RowsAfter(IF e.sig = "transfer_updated" THEN on_transfer_updated(rw, e)
                       ELSE IF e.sig = "transfer_error" THEN on_transfer_error(rw, e)
                       ELSE rw,
                       Tail(evts))

\* The outward signals of one step.
Emit(evts) ==
    /\ emitted' = evts
    /\ lastPct' = PctAfter(lastPct, evts)
    /\ terms' = TermsAfter(terms, evts)
    /\ finals' = FinalsAfter(finals, evts)
    /\ rows' = RowsAfter(rows, evts)

\* ---------------------------------------------------------------- Init
TransferInit ==
    /\ pq = <<>>
    /\ seqNext = 0
    /\ active = <<>>
    /\ allWorkers = {}
    /\ paused = FALSE
    /\ ctl = [pc |-> "idle", todo |-> {}]
    /\ mailbox = [s \in Seqs |-> <<>>]
    /\ task = [s \in Seqs |-> [tid |-> NoTid, mode |-> ""]]
    /\ wk = [s \in Seqs |-> NoWorker]
    /\ cb = [s \in Seqs |-> [th \in CbThreads |-> IdleCb]]
    /\ started = <<>>
    /\ emitted = <<>>
    /\ lastPct = [t \in Tids |-> -1]
    /\ terms = [t \in Tids |-> [done |-> 0, err |-> 0]]
    /\ ncb = 0
    /\ dest = [s \in Seqs |-> "absent"]
    /\ gcalls = [s \in Seqs |-> <<>>]
    /\ openAfter = {}
    /\ rows = <<>>
    /\ finals = [t \in Tids |-> <<>>]

\* ---------------------------------------------------------------- _pump
\* A plausible slip: one slot too many.
PumpGuardOffByOne(act, q) ==
    Cardinality(DOMAIN act) <= max_parallel /\ q # <<>>

\* while len(self.active) < self.max_parallel and self._pq
PumpGuard(act, q) ==
    Cardinality(DOMAIN act) < max_parallel /\ q # <<>>

\* A plausible slip: the dict rebuilt around the new entry.
ActivePutAlone(act, tid, w) == [t \in {tid} |-> w]

\* self.active[tid] = w
ActivePut(act, tid, w) ==
    [t \in (DOMAIN act) \cup {tid} |-> IF t = tid THEN w ELSE act[t]]

\* A plausible slip: the dict emptied.
ActivePopAll(act, tid) == <<>>

\* A plausible slip: the entry left in the dict.
ActivePopNothing(act, tid) == act

\* self.active.pop(_tid, None)
ActivePop(act, tid) == [t \in (DOMAIN act) \ {tid} |-> act[t]]

RECURSIVE PumpLoop(_, _, _)
\* the while loop of _pump: the heap and active it leaves, and the seqs of
\* the workers it started, in order
PumpLoop(q, act, st) ==
    IF PumpGuard(act, q)
    THEN LET item == HeapPopItem(q)
         IN  PumpLoop(HeapPopRest(q), ActivePut(act, item.tid, item.seq),
                      Append(st, item.seq))
    ELSE [q |-> q, act |-> act, st |-> st]

\* A plausible slip: an if in place of the while.
PumpOnce(q, act, isPaused) ==
    IF ~isPaused /\ PumpGuard(act, q)
    THEN [q |-> HeapPopRest(q), act |-> ActivePut(act, HeapPopItem(q).tid, HeapPopItem(q).seq),
          st |-> <<HeapPopItem(q).seq>>]
    ELSE [q |-> q, act |-> act, st |-> <<>>]

\* A plausible slip: the pause flag not consulted.
PumpIgnoringPause(q, act, isPaused) == PumpLoop(q, act, <<>>)

\* _pump(): returns at once when paused
Pump(q, act, isPaused) ==
    IF isPaused THEN [q |-> q, act |-> act, st |-> <<>>] ELSE PumpLoop(q, act, <<>>)

\* _pump() run on heap q and active act, with tk the tasks known by then: the
\* manager's state and the workers it constructs and starts
Admit(q, act, isPaused, tk) ==
    LET r == Pump(q, act, isPaused)
        new == Range(r.st)
    IN  /\ pq' = r.q
        /\ active' = r.act
        /\ started' = r.st
        /\ allWorkers' = allWorkers \cup new
        /\ wk' = [s \in Seqs |->
                    IF s \in new THEN NewWorker(WorkerMode(tk[s].mode)) ELSE wk[s]]

\* ---------------------------------------------------------------- enqueue API
\* str(uuid.uuid4())[:8] when the 32 random bits kept are not those of an
\* earlier task of this manager: an id no earlier task has.  Spec and UiSpec
\* are the behaviours in which every draw is of this kind; DrawSpec has the
\* others too.
NewTid == CHOOSE t \in Tids : \A s \in Seqs : task[s].tid # t

\* _enqueue(priority, mode, ...) with tid what str(uuid.uuid4())[:8] gave:
\* push, emit Queued, pump
EnqueueWith(priority, mode, tid) ==
    /\ ctl.pc = "idle"
    /\ seqNext < (IF ncb > 0 THEN MaxCbTasks ELSE MaxTasks)
    /\ LET item == QueueItem(priority, seqNext, tid, mode)
           tk == [task EXCEPT ![seqNext] = [tid |-> tid, mode |-> mode]]
       IN  /\ task' = tk
           /\ seqNext' = seqNext + 1
           /\ Emit(<<Updated(tid, mode, 0, "Queued")>>)
           /\ Admit(HeapPush(pq, item), active, paused, tk)
    /\ UNCHANGED <<svars, wvars, gcalls, dest, ncb, paused, ctl, mailbox, cb>>

Enqueue(priority, mode) == EnqueueWith(priority, mode, NewTid) /\ UNCHANGED opened

\* _enqueue with the id drawn at random: any of the ids, one in use included
EnqueueDrawn(priority, mode) ==
    \E tid \in Tids : EnqueueWith(priority, mode, tid) /\ UNCHANGED <<openAfter, opened>>

enqueue_upload == Enqueue(PRI_UPLOAD, "UPLOAD") /\ UNCHANGED openAfter
enqueue_download == Enqueue(PRI_DOWNLOAD, "DOWNLOAD") /\ UNCHANGED openAfter
enqueue_open == Enqueue(PRI_OPEN, "OPEN") /\ UNCHANGED openAfter

\* ---------------------------------------------------------------- MainWindow
\* if not self.transfer_mgr or not self.current_bucket: return.  transfer_mgr
\* is set to None right after the one shutdown() MainWindow calls, and
\* MainWindow calls neither pause() nor resume(): the manager it holds is the
\* one not paused.  The user has chosen the bucket (WindowInit), and it stays
\* chosen.
Connected == ~paused

\* self.open_after_done[tid] = True
Registered(reg, tid) == reg \cup {tid}

\* open_key(key): tid = transfer_mgr.enqueue_download(...); register tid
open_key ==
    /\ Connected
    /\ Enqueue(PRI_DOWNLOAD, "DOWNLOAD")
    /\ openAfter' = Registered(openAfter, NewTid)

\* download_key(key): transfer_mgr.enqueue_download(...)
download_key == Connected /\ enqueue_download

\* dropEvent(event), for one dropped file: transfer_mgr.enqueue_upload(...)
dropEvent == Connected /\ enqueue_upload

\* ---------------------------------------------------------------- the listing cache
\* The key of the task with seq s.  MainWindow.dropEvent makes it
\* current_prefix + filename; here the tasks of one behaviour have the keys
\* "a", "aa", "aaa", ...
KeyOfTask(s) == [j \in 1 .. (s + 1) |-> "a"]

\* the position of the last "/" of k, 0 when there is none
LastSlash(k) ==
    LET S == {j \in DOMAIN k : k[j] = "/"}
    IN  IF S = {} THEN 0 ELSE CHOOSE j \in S : \A i \in S : i <= j

\* p = "/".join(key.split("/")[:-1]).strip(); return (p + "/") if p else ""
folder_of_key(key) ==
    IF LastSlash(key) <= 1 THEN <<>> ELSE SubSeq(key, 1, LastSlash(key))

\* no S3ListWorker is under way whose result would be taken
NoLoad == [pc |-> "none", prefix |-> <<>>, folders |-> <<>>, files |-> <<>>, at |-> 0]

\* self._nav_token += 1; token = self._nav_token; w = S3ListWorker(...);
\* self._run_worker(w).  _on_objects_ready returns at once for a worker whose
\* token is not _nav_token, so only the worker started last is kept.
StartLoad(prefix) == [NoLoad EXCEPT !.pc = "start", !.prefix = prefix]

\* self.cache.pop((bucket, prefix), None)
invalidate_prefix(c, prefix) == [p \in (DOMAIN c) \ {prefix} |-> c[p]]

\* load_table_from_prefix(bucket, prefix, force_refresh=True)
load_table_forced(prefix) ==
    /\ cache' = invalidate_prefix(cache, prefix)
    /\ load' = StartLoad(prefix)

\* load_table_from_prefix(bucket, prefix, force_refresh=False)
load_table_from_prefix(prefix) ==
    IF prefix \in DOMAIN cache
    THEN /\ table' = [folders |-> cache[prefix].folders, files |-> cache[prefix].files]
         /\ UNCHANGED <<cache, load>>
    ELSE /\ load' = StartLoad(prefix)
         /\ UNCHANGED <<cache, table>>

\* invalidate_and_reload_current().  The tree view has no current item (the
\* user goes from folder to folder by the path box and the table), so
\* refresh_tree_node_for_current returns at "if not idx.isValid()".
invalidate_and_reload_current ==
    /\ cache' = invalidate_prefix(invalidate_prefix(cache, current_prefix), current_prefix)
    /\ load' = StartLoad(current_prefix)

\* on_transfer_done(tid, local_path), from "meta = self._transfer_meta.get(tid)"
\* on, for the key of the transfer
on_transfer_done(key) ==
    /\ IF folder_of_key(key) = current_prefix
       THEN /\ cache' = invalidate_prefix(invalidate_prefix(cache, folder_of_key(key)),
                                          current_prefix)
            /\ load' = StartLoad(current_prefix)
       ELSE /\ cache' = invalidate_prefix(cache, folder_of_key(key))
            /\ load' = load
    /\ UNCHANGED <<current_prefix, table, clipboard, gui, mut>>
    /\ UNCHANGED <<nav, opened>>

\* no handler of MainWindow is inside an S3Client call
IdleGui == [pc |-> "idle", key |-> <<>>, is_folder |-> FALSE, dst |-> <<>>]

\* self.clipboard_items = []; self.clipboard_cut = False
NoClipboard == [items |-> <<>>, cut |-> FALSE]

\* a task that open_key did not make
NotOpened == [key |-> <<>>, local_path |-> <<>>]

\* the views a listing fills: the table, the children of the tree's current
\* node, and the tree's top level (the buckets)
Views == {"table", "children", "buckets"}

\* _nav_token = 0, no S3ListWorker running, and no response applied to a view
\* yet: latest[v] is the token of the request made last for view v, shown[v]
\* the token of the response view v shows
NoNav ==
    [token |-> 0, reqs |-> {}, latest |-> [v \in Views |-> 0],
     shown |-> [v \in Views |-> 0]]

\* MainWindow.__init__, and the bucket chosen with nothing listed yet
WindowInit ==
    /\ cache = <<>>
    /\ current_prefix = <<>>
    /\ table = [folders |-> <<>>, files |-> <<>>]
    /\ load = NoLoad
    /\ clipboard = NoClipboard
    /\ gui = IdleGui
    /\ mut = [n |-> 0, given |-> 0, folders |-> {}, trees |-> {}]
    /\ nav = NoNav
    /\ opened = [s \in Seqs |-> NotOpened]

\* ---------------------------------------------------------------- controls
\* pause()
pause ==
    /\ ctl.pc = "idle"
    /\ ~paused
    /\ paused' = TRUE
    /\ Emit(<<>>)
    /\ started' = <<>>
    /\ UNCHANGED <<svars, mvars, gcalls, openAfter, dest, ncb, pq, seqNext, active, allWorkers, ctl, mailbox, task, wk, cb>>

\* resume()
resume ==
    /\ ctl.pc = "idle"
    /\ paused
    /\ paused' = FALSE
    /\ Emit(<<>>)
    /\ Admit(pq, active, FALSE, task)
    /\ UNCHANGED <<svars, mvars, gcalls, openAfter, dest, ncb, seqNext, ctl, mailbox, task, cb>>

\* clear_queue()
clear_queue ==
    /\ ctl.pc = "idle"
    /\ pq # <<>>
    /\ pq' = <<>>
    /\ Emit(<<>>)
    /\ started' = <<>>
    /\ UNCHANGED <<svars, mvars, gcalls, openAfter, dest, ncb, seqNext, active, allWorkers, paused, ctl, mailbox, task, wk, cb>>

\* ---------------------------------------------------------------- slots
\* A plausible slip: the slot run while shutdown() is inside its loop.
PostedAnytime(w, sig) ==
    /\ mailbox[w] # <<>>
    /\ Head(mailbox[w]).sig = sig
    /\ mailbox' = [mailbox EXCEPT ![w] = Tail(@)]

\* The GUI thread takes the oldest posted signal of worker w and runs the slot
\* connected to it in _pump; tid and mode are the values bound when the slot
\* was made.
Posted(w, sig) ==
    /\ ctl.pc = "idle"
    /\ mailbox[w] # <<>>
    /\ Head(mailbox[w]).sig = sig
    /\ mailbox' = [mailbox EXCEPT ![w] = Tail(@)]

\* w.progress -> transfer_updated(tid, mode, bucket, key, p, "Running")
relay_progress(w) ==
    /\ Posted(w, "progress")
    /\ LET m == Head(mailbox[w])
       IN  Emit(<<Updated(task[m.w].tid, task[m.w].mode, m.p, "Running")>>)
    /\ started' = <<>>
    /\ UNCHANGED <<svars, mvars, gcalls, openAfter, dest, ncb, pq, seqNext, active, allWorkers, paused, ctl, task, wk, cb>>

\* w.status -> transfer_updated(tid, mode, bucket, key, -1, s)
relay_status(w) ==
    /\ Posted(w, "status")
    /\ LET m == Head(mailbox[w])
       IN  Emit(<<Updated(task[m.w].tid, task[m.w].mode, -1, m.s)>>)
    /\ started' = <<>>
    /\ UNCHANGED <<svars, mvars, gcalls, openAfter, dest, ncb, pq, seqNext, active, allWorkers, paused, ctl, task, wk, cb>>

\* str(e) of the S3UploadFailedError that boto3's upload_file raises when a
\* request of the upload is refused: "Failed to upload {filename} to
\* {bucket}/{key}: {error}".  The file and the key are named by the user; two
\* names stand for all.
UploadFailedTexts ==
    {"Failed to upload report.csv to bucket/report.csv: AccessDenied",
     "Failed to upload Cancelled-orders.csv to bucket/Cancelled-orders.csv: AccessDenied"}

\* the error texts of the model in which "cancel" occurs once lowercased
CancelTexts ==
    {"Transfer cancelled",
     "Failed to upload Cancelled-orders.csv to bucket/Cancelled-orders.csv: AccessDenied"}

\* "cancel" in str(msg).lower()
HasCancel(msg) == msg \in CancelTexts

\* on_err(msg)
on_err(w) ==
    /\ Posted(w, "error")
    /\ LET m == Head(mailbox[w])
           tid == task[m.w].tid
           mode == task[m.w].mode
       IN  /\ Emit(<<Updated(tid, mode, -1, IF HasCancel(m.s) THEN "Cancelled" ELSE "Failed"),
                     Error(tid, m.s)>>)
           /\ Admit(pq, ActivePop(active, tid), paused, task)
    /\ UNCHANGED <<svars, mvars, gcalls, openAfter, dest, ncb, seqNext, paused, ctl, task, cb>>

\* MainWindow.on_transfer_done, connected to transfer_done on the same thread:
\* if tid in self.open_after_done: self.open_after_done.pop(tid, None)
OpenAfterDone(reg, tid) == reg \ {tid}

\* on_done(worker_local_path)
on_done(w) ==
    /\ Posted(w, "done")
    /\ LET m == Head(mailbox[w])
           tid == task[m.w].tid
           mode == task[m.w].mode
       IN  /\ Emit(<<Updated(tid, mode, 100, "Done"), Done(tid)>>)
           /\ openAfter' = OpenAfterDone(openAfter, tid)
           /\ on_transfer_done(KeyOfTask(m.w))
           /\ Admit(pq, ActivePop(active, tid), paused, task)
    /\ UNCHANGED <<svars, gcalls, dest, ncb, seqNext, paused, ctl, task, cb>>

\* w.finished -> _cleanup_worker(w)
cleanup_worker(w) ==
    /\ Posted(w, "finished")
    /\ allWorkers' = allWorkers \ {w}
    /\ Emit(<<>>)
    /\ started' = <<>>
    /\ UNCHANGED <<svars, mvars, gcalls, openAfter, dest, ncb, pq, seqNext, active, paused, ctl, task, wk, cb>>

\* ---------------------------------------------------------------- shutdown
\* shutdown(): self._paused = True; self._pq.clear(); then the loop over
\* list(self._all_workers), which the next two actions walk
shutdown_begin ==
    /\ ctl.pc = "idle"
    /\ paused' = TRUE
    /\ pq' = <<>>
    /\ ctl' = [pc |-> "shutdown", todo |-> allWorkers]
    /\ Emit(<<>>)
    /\ started' = <<>>
    /\ UNCHANGED <<svars, mvars, gcalls, openAfter, dest, ncb, seqNext, active, allWorkers, mailbox, task, wk, cb>>

\* A plausible slip: the interruption request left out of the loop body.
ShutdownVisitedNoRequest(w) == wk[w]

\* one worker of the loop: if w.isRunning(): w.requestInterruption(); w.quit();
\* w.wait(1500).  The worker threads go on running while the GUI thread waits.
ShutdownVisited(w) ==
    IF IsRunning(w) THEN [wk[w] EXCEPT !.intr = TRUE] ELSE wk[w]

shutdown_visit(w) ==
    /\ ctl.pc = "shutdown"
    /\ w \in ctl.todo
    /\ ctl' = [ctl EXCEPT !.todo = @ \ {w}]
    /\ wk' = [wk EXCEPT ![w] = ShutdownVisited(w)]
    /\ Emit(<<>>)
    /\ started' = <<>>
    /\ UNCHANGED <<svars, mvars, gcalls, openAfter, dest, ncb, pq, seqNext, active, allWorkers, paused, mailbox, task, cb>>

\* the loop is over and shutdown() returns
shutdown_return ==
    /\ ctl.pc = "shutdown"
    /\ ctl.todo = {}
    /\ ctl' = [pc |-> "idle", todo |-> {}]
    /\ Emit(<<>>)
    /\ started' = <<>>
    /\ UNCHANGED <<svars, mvars, gcalls, openAfter, dest, ncb, pq, seqNext, active, allWorkers, paused, mailbox, task, wk, cb>>

\* ---------------------------------------------------------------- TransferWorker
\* a signal emitted off the GUI thread is queued for it
Post(w, msgs) == mailbox' = [mailbox EXCEPT ![w] = @ \o msgs]

\* except Exception as e: status.emit("Failed"); error.emit(str(e)); then run()
\* returns and the QThread emits finished
Failure(w, msg) ==
    <<Msg(w, "status", -1, "Failed"), Msg(w, "error", -1, msg), Msg(w, "finished", -1, "")>>

\* A plausible slip: the success path falling through into the error report.
FinalEmitsThenError(w) ==
    <<Msg(w, "progress", 100, ""), Msg(w, "status", -1, "Done"), Msg(w, "done", -1, ""),
      Msg(w, "error", -1, "late"), Msg(w, "finished", -1, "")>>

\* A plausible slip: done emitted ahead of the last progress value.
FinalEmitsDoneFirst(w) ==
    <<Msg(w, "done", -1, ""), Msg(w, "progress", 100, ""), Msg(w, "status", -1, "Done"),
      Msg(w, "finished", -1, "")>>

\* final emit: progress.emit(100); status.emit("Done"); done.emit(local_path);
\* then run() returns and the QThread emits finished
FinalEmits(w) ==
    <<Msg(w, "progress", 100, ""), Msg(w, "status", -1, "Done"), Msg(w, "done", -1, ""),
      Msg(w, "finished", -1, "")>>

\* status.emit("Starting download...") / status.emit("Starting upload...")
StartStatus(w) ==
    IF wk[w].mode = "download" THEN <<Msg(w, "status", -1, "Starting download")>>
    ELSE IF wk[w].mode = "upload" THEN <<Msg(w, "status", -1, "Starting upload")>>
    ELSE <<>>

\* what can be raised before the transfer call: s3.get_object_size failing,
\* the upload source missing, a mode that is neither
StartErrors(w) ==
    IF wk[w].mode = "download" THEN {"ClientError"}
    ELSE IF wk[w].mode = "upload" THEN {"Local file not found for upload"}
    ELSE {"Invalid transfer mode"}

\* A plausible slip: the size taken from the store for uploads too, ahead of
\* the test for the local file.
StartCallsSizeFirst(w) == <<"get_object_size">>

\* the S3Client methods run() has called when one of StartErrors is raised
StartCalls(w) ==
    IF wk[w].mode = "download" THEN <<"get_object_size">> ELSE <<>>

\* the S3Client methods run() has called once it is inside the transfer call
TransferCalls(w) ==
    IF wk[w].mode = "download" THEN <<"get_object_size", "download_file">>
    ELSE <<"upload_file">>

\* put_object / copy_object / upload_file: the object at key is body from
\* now on
PutAt(st, key, body) ==
    [k \in (DOMAIN st) \cup {key} |-> IF k = key THEN body ELSE st[k]]

\* the bucket after the transfer call of worker w has returned: an upload has
\* put the file's content, told apart by its key, at the task's key
StoreAfter(st, w) ==
    IF wk[w].mode = "upload" THEN PutAt(st, KeyOfTask(w), KeyOfTask(w)) ELSE st

\* str(e) of an exception out of s3.download_file / s3.upload_file
GatewayErrors == {"ClientError"}

\* run(), the lines before the transfer call, raising
run_start_raise(w) ==
    /\ wk[w].pc = "start"
    /\ \E msg \in StartErrors(w) : Post(w, StartStatus(w) \o Failure(w, msg))
    /\ gcalls' = [gcalls EXCEPT ![w] = StartCalls(w)]
    /\ wk' = [wk EXCEPT ![w] = EndedWorker]
    /\ Emit(<<>>)
    /\ started' = <<>>
    /\ UNCHANGED <<svars, mvars, openAfter, dest, ncb, pq, seqNext, active, allWorkers, paused, ctl, task, cb>>

\* run(), the lines before the transfer call: _total is the object's or the
\* file's size, and the transfer call is entered
run_start(w) ==
    /\ wk[w].pc = "start"
    /\ wk[w].mode \in {"download", "upload"}
    /\ wk' = [wk EXCEPT ![w].pc = "gw", ![w].seen = 0, ![w].last = 0,
                        ![w].cancel = FALSE]
    /\ Post(w, StartStatus(w))
    /\ gcalls' = [gcalls EXCEPT ![w] = TransferCalls(w)]
    /\ Emit(<<>>)
    /\ started' = <<>>
    /\ UNCHANGED <<svars, mvars, openAfter, dest, ncb, pq, seqNext, active, allWorkers, paused, ctl, task, cb>>

\* ---------------------------------------------------------------- float
\* Python's float is the IEEE 754 double: a significand of 53 bits, results
\* rounded to nearest, ties to even.  A positive float is kept here as
\* [m, e]: m the 53 bits of the significand, first bit 1, and the value is
\* 1.m[2]m[3]... * 2^e.
SignificandBits == 53

RECURSIVE FNorm(_, _, _)
\* n / d * 2^e brought to d <= n < 2d
FNorm(n, d, e) ==
    IF n >= 2 * d THEN FNorm(n, 2 * d, e + 1)
    ELSE IF n < d THEN FNorm(2 * n, d, e - 1)
    ELSE [n |-> n, d |-> d, e |-> e]

RECURSIVE FDivBits(_, _, _, _)
\* the next k bits of the quotient after remainder r, and the remainder left
FDivBits(r, d, k, bits) ==
    IF k = 0 THEN [bits |-> bits, r |-> r]
    ELSE LET b == IF 2 * r >= d THEN 1 ELSE 0
         IN  FDivBits(2 * r - d * b, d, k - 1, Append(bits, b))

RECURSIVE FAddOne(_, _)
\* the bits plus one in the last place, from position i down; a carry out of
\* the first bit gives one bit more
FAddOne(bits, i) ==
    IF i = 0 THEN <<1>> \o bits
    ELSE IF bits[i] = 1 THEN FAddOne([bits EXCEPT ![i] = 0], i - 1)
    ELSE [bits EXCEPT ![i] = 1]

\* round to nearest, ties to even: guard is the first bit dropped, sticky says
\* whether any later one is set
FRound(bits, guard, sticky, e) ==
    IF guard = 1 /\ (sticky \/ bits[Len(bits)] = 1)
    THEN LET up == FAddOne(bits, Len(bits))
         IN  IF Len(up) > SignificandBits
             THEN [m |-> SubSeq(up, 1, SignificandBits), e |-> e + 1]
             ELSE [m |-> up, e |-> e]
    ELSE [m |-> bits, e |-> e]

\* s / t for ints s > 0, t > 0
FDiv(s, t) ==
    LET nd == FNorm(s, t, 0)
        q == FDivBits(nd.n - nd.d, nd.d, SignificandBits - 1, <<1>>)
        guard == IF 2 * q.r >= nd.d THEN 1 ELSE 0
    IN  FRound(q.bits, guard, 2 * q.r - nd.d * guard # 0, nd.e)

RECURSIVE FMulBits(_, _, _, _, _)
\* the bits of (bits * c), worked from the last bit with a carry
FMulBits(bits, c, i, carry, out) ==
    LET v == (IF i = 0 THEN 0 ELSE bits[i] * c) + carry
    IN  IF v = 0 /\ i = 0 THEN out
        ELSE FMulBits(bits, c, IF i = 0 THEN 0 ELSE i - 1, v \div 2, <<v % 2>> \o out)

\* x * c for a float x and a small int c > 0
FMul(x, c) ==
    LET prod == FMulBits(x.m, c, Len(x.m), 0, <<>>)
        extra == Len(prod) - SignificandBits
        guard == IF extra > 0 THEN prod[SignificandBits + 1] ELSE 0
        sticky == \E j \in (SignificandBits + 2) .. Len(prod) : prod[j] = 1
    IN  FRound(SubSeq(prod, 1, SignificandBits), guard, sticky, x.e + extra)

RECURSIVE BitsToInt(_, _)
BitsToInt(bits, acc) ==
    IF bits = <<>> THEN acc ELSE BitsToInt(Tail(bits), 2 * acc + Head(bits))

\* int(x) for a float x > 0, or 128 when int(x) >= 128
FInt(x) ==
    IF x.e < 0 THEN 0
    ELSE IF x.e >= 7 THEN 128
    ELSE BitsToInt(SubSeq(x.m, 1, x.e + 1), 0)

\* pct = int((self._seen / self._total) * 100); pct = max(0, min(100, pct)),
\* for _seen >= 0 and _total > 0
Pct(seen, total) ==
    LET raw == IF seen = 0 THEN 0 ELSE FInt(FMul(FDiv(seen, total), 100))
    IN  IF raw < 0 THEN 0 ELSE IF raw > 100 THEN 100 ELSE raw

\* self._total, as set in run() before the transfer call
TotalOf(w) == IF wk[w].total = Unread THEN Sizes ELSE {wk[w].total}

\* The transfer library calls _cb(bytes_amount) on one of its threads.  Lines
\* 31-35: the interruption test, then self._seen is loaded for the +=.
cb_enter(w, th) ==
    /\ wk[w].pc = "gw"
    /\ cb[w][th].pc = "idle"
    /\ ncb < MaxCb
    /\ seqNext <= MaxCbTasks
    /\ ncb' = ncb + 1
    /\ \E amt \in Amounts, total \in TotalOf(w) :
         /\ th = 1 \/ total >= multipart_threshold
         /\ IF wk[w].intr
            THEN /\ wk' = [wk EXCEPT ![w].cancel = TRUE, ![w].total = total]
                 /\ cb' = cb
            ELSE /\ wk' = [wk EXCEPT ![w].total = total]
                 /\ cb' = [cb EXCEPT ![w][th] =
                             [pc |-> "add", amt |-> amt, loaded |-> wk[w].seen, pct |-> 0]]
    /\ Emit(<<>>)
    /\ started' = <<>>
    /\ UNCHANGED <<svars, mvars, gcalls, openAfter, dest, pq, seqNext, active, allWorkers, paused, ctl, mailbox, task>>

\* Lines 35-47: self._seen is stored, then the tests on _total and on the time
\* since _last_emit (0.0 before the first emit, so the first one always passes),
\* then the percentage.
cb_store(w, th) ==
    /\ cb[w][th].pc = "add"
    /\ LET seen == cb[w][th].loaded + cb[w][th].amt
       IN  \E pass \in (IF wk[w].last = 0 THEN {TRUE} ELSE BOOLEAN) :
             IF wk[w].total # 0 /\ pass
             THEN /\ wk' = [wk EXCEPT ![w].seen = seen, ![w].last = 1]
                  /\ cb' = [cb EXCEPT ![w][th].pc = "emit",
                                      ![w][th].pct = Pct(seen, wk[w].total)]
             ELSE /\ wk' = [wk EXCEPT ![w].seen = seen]
                  /\ cb' = [cb EXCEPT ![w][th] = IdleCb]
    /\ Emit(<<>>)
    /\ started' = <<>>
    /\ UNCHANGED <<svars, mvars, gcalls, openAfter, dest, ncb, pq, seqNext, active, allWorkers, paused, ctl, mailbox, task>>

\* Lines 53-54: progress.emit(pct); status.emit(f"{mode} {pct}% (... MB/s)")
cb_emit(w, th) ==
    /\ cb[w][th].pc = "emit"
    /\ Post(w, <<Msg(w, "progress", cb[w][th].pct, ""), Msg(w, "status", -1, "Transferring")>>)
    /\ cb' = [cb EXCEPT ![w][th] = IdleCb]
    /\ Emit(<<>>)
    /\ started' = <<>>
    /\ UNCHANGED <<svars, mvars, gcalls, openAfter, dest, ncb, pq, seqNext, active, allWorkers, paused, ctl, task, wk>>

CbIdle(w) == \A th \in CbThreads : cb[w][th].pc = "idle"

\* s3.download_file / s3.upload_file raises
gateway_raise(w) ==
    /\ wk[w].pc = "gw"
    /\ CbIdle(w)
    /\ \E msg \in GatewayErrors : Post(w, Failure(w, msg))
    /\ wk' = [wk EXCEPT ![w] = EndedWorker]
    /\ Emit(<<>>)
    /\ started' = <<>>
    /\ UNCHANGED <<svars, mvars, gcalls, openAfter, dest, ncb, pq, seqNext, active, allWorkers, paused, ctl, task, cb>>

\* s3.upload_file raises with the text that names the file and the key
upload_raise(w) ==
    /\ wk[w].pc = "gw"
    /\ wk[w].mode = "upload"
    /\ CbIdle(w)
    /\ \E msg \in UploadFailedTexts : Post(w, Failure(w, msg))
    /\ wk' = [wk EXCEPT ![w] = EndedWorker]
    /\ Emit(<<>>)
    /\ started' = <<>>
    /\ UNCHANGED <<svars, mvars, gcalls, openAfter, dest, ncb, pq, seqNext, active, allWorkers, paused, ctl, task, cb>>

\* The file at a download's local_path: "absent"; "present"; or "locked", a
\* file that exists and that another process holds open, so that os.remove
\* raises (a sharing violation).  Before the run the path is free.
\* What os.path.exists(local_path) can find once download_file has returned:
\* the file it wrote, nothing (the file was taken away), and, on the branch
\* that goes on to os.remove, a file that cannot be removed.
FilesFound(w) ==
    IF wk[w].mode # "download" THEN {dest[w]}
    ELSE IF wk[w].cancel THEN {"absent", "present", "locked"}
    ELSE {"absent", "present"}

\* A plausible slip: the cleanup left out.
RemovedNever(file) == file

\* try: if os.path.exists(local_path): os.remove(local_path); except: pass
Removed(file) == IF file = "present" THEN "absent" ELSE file

\* the download's file when run() ends, found being what was there after the
\* transfer call
DestAfter(w, found) ==
    IF wk[w].mode = "download" /\ wk[w].cancel THEN Removed(found) ELSE found

\* A plausible slip: the flag not looked at after the transfer call.
AfterTransferBlind(w, exists) ==
    IF wk[w].mode = "download" /\ ~exists
    THEN Failure(w, "Download finished but file not found on disk")
    ELSE FinalEmits(w)

\* run(), the lines after the transfer call; exists is os.path.exists(local_path)
AfterTransfer(w, exists) ==
    IF wk[w].cancel THEN Failure(w, "Transfer cancelled")
    ELSE IF wk[w].mode = "download" /\ ~exists
    THEN Failure(w, "Download finished but file not found on disk")
    ELSE FinalEmits(w)

\* s3.download_file / s3.upload_file returns and run() goes on to its end
gateway_return(w) ==
    /\ wk[w].pc = "gw"
    /\ CbIdle(w)
    /\ \E found \in FilesFound(w) :
         /\ Post(w, AfterTransfer(w, found # "absent"))
         /\ dest' = [dest EXCEPT ![w] = DestAfter(w, found)]
    /\ store' = StoreAfter(store, w)
    /\ wk' = [wk EXCEPT ![w] = EndedWorker]
    /\ Emit(<<>>)
    /\ started' = <<>>
    /\ UNCHANGED <<before, op, calls, result, made>>
    /\ UNCHANGED <<mvars, gcalls, openAfter, ncb, pq, seqNext, active, allWorkers, paused, ctl, task, cb>>

\* ================================================================ S3Client
\* ---------------------------------------------------------------- bounds
\* Length of the keys in the bucket at the start and of the key and prefix
\* arguments of a call.
MaxKeyLen == 2
\* Number of objects in the bucket at the start.
MaxObjects == 2
\* Number of entries the store serves in one page of list_objects_v2.
PageSize == 1
\* Number of create_folder calls made one after the other.
MaxCreates == 2

\* ---------------------------------------------------------------- keys
\* A key is a Python str, modelled as the tuple of its characters.
Chars == {"a", "/"}

RECURSIVE Strs(_)
\* the strings of length n over Chars
Strs(n) ==
    IF n = 0 THEN {<<>>}
    ELSE {Append(s, c) : s \in Strs(n - 1), c \in Chars}

\* object keys: S3 has no empty key
AllKeys == UNION {Strs(n) : n \in 1 .. MaxKeyLen}
\* prefix arguments, the empty prefix (the bucket's root) among them
AllPrefixes == UNION {Strs(n) : n \in 0 .. MaxKeyLen}

\* the code point of a character: the store lists keys in UTF-8 binary order
Rank(c) == IF c = "/" THEN 47 ELSE 97

RECURSIVE KeyLess(_, _)
\* k1 < k2 as strings
KeyLess(k1, k2) ==
    IF k2 = <<>> THEN FALSE
    ELSE IF k1 = <<>> THEN TRUE
    ELSE IF Head(k1) # Head(k2) THEN Rank(Head(k1)) < Rank(Head(k2))
    ELSE KeyLess(Tail(k1), Tail(k2))

RECURSIVE SortedKeys(_)
\* the keys of a set in listing order
SortedKeys(S) ==
    IF S = {} THEN <<>>
    ELSE LET m == CHOOSE x \in S : \A y \in S : ~KeyLess(y, x)
         IN  <<m>> \o SortedKeys(S \ {m})

\* s[a:b], a and b not negative
Slice(s, a, b) ==
    LET e == IF b < Len(s) THEN b ELSE Len(s)
    IN  IF a < e THEN [j \in 1 .. (e - a) |-> s[a + j]] ELSE <<>>

\* key.startswith(p)
StartsWith(k, p) == Slice(k, 0, Len(p)) = p

\* prefix.endswith("/")
EndsWithSlash(p) == p # <<>> /\ p[Len(p)] = "/"

\* A plausible slip: the prefix used as it was given.
NormalizeNot(p) == p

\* if not prefix.endswith("/"): prefix += "/"
Normalize(p) == IF ~EndsWithSlash(p) THEN p \o <<"/">> ELSE p

\* body of an object: b"" for a marker, otherwise what was stored under a key
\* at the start, told apart by the name of that key
EmptyBody == <<>>

\* the objects of a bucket
Objects(S) == [k \in S |-> k]

\* the buckets a behaviour can start with
Stores == {Objects(S) : S \in {T \in SUBSET AllKeys : Cardinality(T) <= MaxObjects}}

\* ---------------------------------------------------------------- the store
\* What the S3 API does with the requests S3Client sends.  Every request can
\* fail, and then botocore raises and the store is as it was.
\* delete_object / delete_objects: the objects at keys are gone; a key that
\* does not exist is no error
DropAll(st, keys) == [k \in (DOMAIN st) \ keys |-> st[k]]

\* copy_object can succeed only for a source that exists, and S3 refuses to
\* copy an object onto itself unchanged (InvalidRequest)
CopyOutcomes(st, src, dst) ==
    IF src \in DOMAIN st /\ src # dst THEN {TRUE, FALSE} ELSE {FALSE}

\* A delete_objects request that is answered can still have refused keys: the
\* answer lists them under Errors and the others are deleted.  None, or one
\* key that exists, is refused.
Refusals(st, chunk) ==
    {{}} \cup {{k} : k \in {chunk[j] : j \in DOMAIN chunk} \cap DOMAIN st}

\* the keys under prefix, in listing order
Listing(st, prefix) == SortedKeys({k \in DOMAIN st : StartsWith(k, prefix)})

NoToken == 0

\* list_objects_v2(Bucket, Prefix[, ContinuationToken]) answered: one page of
\* keys, IsTruncated, NextContinuationToken (here the position to go on from)
Page(st, prefix, token) ==
    LET all == Listing(st, prefix)
        from == IF token # NoToken THEN token ELSE 0
        upto == IF from + PageSize < Len(all) THEN from + PageSize ELSE Len(all)
    IN  [contents |-> Slice(all, from, upto),
         truncated |-> upto < Len(all),
         next |-> upto]

\* the number of pages the store serves for a prefix
Pages(st, prefix) ==
    LET n == Len(Listing(st, prefix))
    IN  IF n = 0 THEN 1 ELSE (n + PageSize - 1) \div PageSize

RECURSIVE SlashAt(_, _)
\* the position of the first "/" of k after position i, 0 when there is none
SlashAt(k, i) ==
    IF i >= Len(k) THEN 0
    ELSE IF k[i + 1] = "/" THEN i + 1
    ELSE SlashAt(k, i + 1)

\* list_objects_v2(Bucket, Prefix, Delimiter="/") answered: the first page,
\* with the keys that have no "/" after the prefix under Contents and the
\* others rolled up to their first "/" under CommonPrefixes
DelimitedPage(st, prefix) ==
    LET under == {k \in DOMAIN st : StartsWith(k, prefix)}
        flat == {k \in under : SlashAt(k, Len(prefix)) = 0}
        rolled == {Slice(k, 0, SlashAt(k, Len(prefix))) : k \in under \ flat}
        all == SortedKeys(flat \cup rolled)
        page == {all[j] : j \in 1 .. (IF PageSize < Len(all) THEN PageSize ELSE Len(all))}
    IN  [contents |-> SortedKeys(page \cap flat),
         prefixes |-> SortedKeys(page \cap rolled)]

\* ---------------------------------------------------------------- calls
IdleOp ==
    [name |-> "", pc |-> "idle", prefix |-> <<>>, dst |-> <<>>, keys |-> <<>>,
     token |-> NoToken, i |-> 0]

NoResult ==
    [of |-> "", status |-> "none", error |-> "", keys |-> <<>>, folders |-> <<>>]

\* one request sent to the store: ok when it was answered, errors the keys
\* the answer lists under Errors
Call(api, keys, ok) == [api |-> api, keys |-> keys, ok |-> ok, errors |-> {}]

\* no S3Client call is being made and none was
StoreIdle ==
    /\ before = <<>>
    /\ op = IdleOp
    /\ calls = <<>>
    /\ result = NoResult
    /\ made = <<>>

\* an S3Client method is entered: the caller makes one call in a behaviour,
\* or calls create_folder for one folder up to MaxCreates times, or the
\* caller is a handler of MainWindow
Entered(name) ==
    /\ op.pc = "idle"
    /\ \/ result.status = "none"
       \/ name = "create_folder" /\ result.of = "create_folder"
          /\ result.status = "ok" /\ Len(made) < MaxCreates
       \/ gui'.pc # "idle"
    /\ before' = store

\* the method returns; op keeps its arguments and locals for the reader
Returns(keys, folders) ==
    /\ op' = [op EXCEPT !.pc = "idle"]
    /\ result' = [of |-> op.name, status |-> "ok", error |-> "", keys |-> keys,
                  folders |-> folders]

\* a request failed; no method catches, so the exception of the gateway
\* leaves the method as it is
Raises ==
    /\ op' = [op EXCEPT !.pc = "idle"]
    /\ result' = [of |-> op.name, status |-> "raised", error |-> "ClientError",
                  keys |-> <<>>, folders |-> <<>>]

\* the request the step sends is appended to the log
Sent(api, keys, ok) == calls' = Append(calls, Call(api, keys, ok))

\* ---------------------------------------------------------------- list_objects
\* A plausible slip: the marker test left out.
FilesOfAll(contents, prefix) == contents

\* files = [o for o in r.get("Contents", []) if o["Key"] != prefix]
FilesOf(contents, prefix) == SelectSeq(contents, LAMBDA k : k # prefix)

\* list_objects(bucket, prefix)
list_objects(prefix) ==
    /\ Entered("list_objects")
    /\ \E ok \in BOOLEAN :
         /\ calls' = <<Call("list_objects_v2", <<prefix>>, ok)>>
         /\ op' = [IdleOp EXCEPT !.name = "list_objects", !.prefix = prefix]
         /\ IF ok
            THEN LET r == DelimitedPage(store, prefix)
                 IN  result' = [of |-> "list_objects", status |-> "ok", error |-> "",
                                keys |-> FilesOf(r.contents, prefix),
                                folders |-> r.prefixes]
            ELSE result' = [of |-> "list_objects", status |-> "raised",
                            error |-> "ClientError", keys |-> <<>>, folders |-> <<>>]
    /\ UNCHANGED <<tvars, store, made>>

\* ---------------------------------------------------------------- list_all_keys
\* list_all_keys(bucket, prefix) is entered
list_all_keys(prefix) ==
    /\ Entered("list_all_keys")
    /\ op' = [IdleOp EXCEPT !.name = "list_all_keys", !.pc = "list", !.prefix = prefix]
    /\ calls' = <<>>
    /\ UNCHANGED <<tvars, store, result, made>>

\* A plausible slip: the page kept in place of the keys so far.
KeysAfterPageOnly(keys, contents) == contents

\* for o in r.get("Contents", []): keys.append(o["Key"])
KeysAfterPage(keys, contents) == keys \o contents

\* self.delete_objects(bucket, keys) is entered: if not keys: return
DeletePc(keys) == IF keys = <<>> THEN "marker" ELSE "delete"

\* the for loop over keys of rename_folder, then delete_objects
CopyPc(keys, i) == IF i < Len(keys) THEN "copy" ELSE DeletePc(keys)

\* the listing is complete: list_all_keys returns it to the caller or to the
\* method that called it
Listed(keys) ==
    IF op.name = "list_all_keys" THEN Returns(keys, <<>>)
    ELSE /\ op' = [op EXCEPT !.keys = keys, !.i = 0,
                             !.pc = IF op.name = "rename_folder" THEN CopyPc(keys, 0)
                                    ELSE DeletePc(keys)]
         /\ result' = result

\* one round of the while loop of list_all_keys
list_page ==
    /\ op.pc = "list"
    /\ \E ok \in BOOLEAN :
         /\ Sent("list_objects_v2", <<op.prefix>>, ok)
         /\ IF ok
            THEN LET r == Page(store, op.prefix, op.token)
                     keys == KeysAfterPage(op.keys, r.contents)
                 IN  IF r.truncated
                     THEN /\ op' = [op EXCEPT !.keys = keys, !.token = r.next]
                          /\ result' = result
                     ELSE Listed(keys)
            ELSE Raises
    /\ UNCHANGED <<tvars, mvars, store, before, made>>

\* ---------------------------------------------------------------- delete_objects
\* range(0, len(keys), 1000)
BatchSize == 1000

\* Keys that are not in the bucket, to fill a long key list: the decimal
\* digits of 1, 2, 3, ...
Digit == <<"0", "1", "2", "3", "4", "5", "6", "7", "8", "9">>

RECURSIVE FillerKey(_)
FillerKey(n) ==
    IF n < 10 THEN <<Digit[n + 1]>>
    ELSE Append(FillerKey(n \div 10), Digit[(n % 10) + 1])

\* how many filler keys a key list can have: enough to end just below, at
\* and above one batch, and in the middle of the third
Fills == {BatchSize - 2, BatchSize, 2 * BatchSize + (BatchSize \div 2) - 2}

FillerKeys == [j \in 1 .. (3 * BatchSize) |-> FillerKey(j)]

Filler(n) == Slice(FillerKeys, 0, n)

RECURSIVE Orders(_)
\* the duplicate-free lists of the keys of a set
Orders(S) ==
    IF S = {} THEN {<<>>}
    ELSE UNION {{<<k>> \o t : t \in Orders(S \ {k})} : k \in S}

\* The key lists delete_objects is called with: keys of the bucket in any
\* order, or the bucket's keys in listing order with filler keys between the
\* first and the rest.
KeyLists(st) ==
    UNION {Orders(S) : S \in SUBSET DOMAIN st}
    \cup {LET ks == SortedKeys(DOMAIN st)
          IN  Slice(ks, 0, 1) \o Filler(n) \o Slice(ks, 1, Len(ks)) :
          n \in IF DOMAIN st = {} THEN {} ELSE Fills}

\* A plausible slip: the slice one key short.
ChunkShort(keys, i) == Slice(keys, i, i + BatchSize - 1)

\* chunk = keys[i:i + 1000]
Chunk(keys, i) == Slice(keys, i, i + BatchSize)

\* delete_objects(bucket, keys) is entered
delete_objects_of(keys) ==
    /\ Entered("delete_objects")
    /\ calls' = <<>>
    /\ IF keys = <<>>
       THEN /\ op' = [IdleOp EXCEPT !.name = "delete_objects"]
            /\ result' = [NoResult EXCEPT !.of = "delete_objects", !.status = "ok"]
       ELSE /\ op' = [IdleOp EXCEPT !.name = "delete_objects", !.pc = "delete", !.keys = keys]
            /\ result' = result
    /\ UNCHANGED <<tvars, store, made>>

\* the caller's delete_objects call, with one of the key lists
delete_objects ==
    /\ op.pc = "idle"
    /\ result.status = "none"
    /\ \E keys \in KeyLists(store) : delete_objects_of(keys)

\* one round of the for loop of delete_objects: the answer is not looked at
delete_batch ==
    /\ op.pc = "delete"
    /\ LET chunk == Chunk(op.keys, op.i)
           i == op.i + BatchSize
       IN  \/ /\ Sent("delete_objects", chunk, FALSE)
              /\ store' = store
              /\ Raises
           \/ \E refused \in Refusals(store, chunk) :
                /\ calls' = Append(calls, [Call("delete_objects", chunk, TRUE)
                                              EXCEPT !.errors = refused])
                /\ store' = DropAll(store, {chunk[j] : j \in DOMAIN chunk} \ refused)
                /\ IF i < Len(op.keys)
                   THEN op' = [op EXCEPT !.i = i] /\ result' = result
                   ELSE IF op.name = "delete_objects" THEN Returns(<<>>, <<>>)
                   ELSE op' = [op EXCEPT !.i = i, !.pc = "marker"] /\ result' = result
    /\ UNCHANGED <<tvars, mvars, before, made>>

\* ---------------------------------------------------------------- create_folder
\* Body=b""
MarkerBody(key) == EmptyBody

\* create_folder(bucket, prefix)
create_folder(prefix) ==
    /\ Entered("create_folder")
    /\ made # <<>> => Normalize(prefix) = made[1]
    /\ LET key == Normalize(prefix)
       IN  \E ok \in BOOLEAN :
             /\ calls' = <<Call("put_object", <<key>>, ok)>>
             /\ op' = [IdleOp EXCEPT !.name = "create_folder", !.prefix = prefix,
                                     !.dst = key]
             /\ IF ok
                THEN /\ store' = PutAt(store, key, MarkerBody(key))
                     /\ made' = Append(made, key)
                     /\ result' = [NoResult EXCEPT !.of = "create_folder", !.status = "ok"]
                ELSE /\ store' = store
                     /\ made' = made
                     /\ result' = [NoResult EXCEPT !.of = "create_folder",
                                                   !.status = "raised", !.error = "ClientError"]
    /\ UNCHANGED tvars

\* ---------------------------------------------------------------- delete_prefix
\* delete_prefix(bucket, prefix) is entered
delete_prefix(prefix) ==
    /\ Entered("delete_prefix")
    /\ op' = [IdleOp EXCEPT !.name = "delete_prefix", !.pc = "list",
                            !.prefix = Normalize(prefix)]
    /\ calls' = <<>>
    /\ UNCHANGED <<tvars, store, result, made>>

\* self.delete_object(bucket, prefix), the last line of delete_prefix and of
\* rename_folder
delete_marker ==
    /\ op.pc = "marker"
    /\ \E ok \in BOOLEAN :
         /\ Sent("delete_object", <<op.prefix>>, ok)
         /\ IF ok
            THEN store' = DropAll(store, {op.prefix}) /\ Returns(<<>>, <<>>)
            ELSE store' = store /\ Raises
    /\ UNCHANGED <<tvars, mvars, before, made>>

\* ---------------------------------------------------------------- rename_file
\* rename_file(bucket, old_key, new_key) is entered
rename_file(old_key, new_key) ==
    /\ Entered("rename_file")
    /\ op' = [IdleOp EXCEPT !.name = "rename_file", !.pc = "copy_file",
                            !.prefix = old_key, !.dst = new_key]
    /\ calls' = <<>>
    /\ UNCHANGED <<tvars, store, result, made>>

\* A plausible slip: the delete reached whether or not the copy was made.
rename_file_copy_unchecked ==
    /\ op.pc = "copy_file"
    /\ \E ok \in CopyOutcomes(store, op.prefix, op.dst) :
         /\ Sent("copy_object", <<op.prefix, op.dst>>, ok)
         /\ store' = IF ok THEN PutAt(store, op.dst, store[op.prefix]) ELSE store
         /\ op' = [op EXCEPT !.pc = "delete_file"]
         /\ result' = result
    /\ UNCHANGED <<tvars, mvars, before, made>>

\* self.copy_object(bucket, old_key, bucket, new_key)
rename_file_copy ==
    /\ op.pc = "copy_file"
    /\ \E ok \in CopyOutcomes(store, op.prefix, op.dst) :
         /\ Sent("copy_object", <<op.prefix, op.dst>>, ok)
         /\ IF ok
            THEN /\ store' = PutAt(store, op.dst, store[op.prefix])
                 /\ op' = [op EXCEPT !.pc = "delete_file"]
                 /\ result' = result
            ELSE store' = store /\ Raises
    /\ UNCHANGED <<tvars, mvars, before, made>>

\* self.delete_object(bucket, old_key)
rename_file_delete ==
    /\ op.pc = "delete_file"
    /\ \E ok \in BOOLEAN :
         /\ Sent("delete_object", <<op.prefix>>, ok)
         /\ IF ok
            THEN store' = DropAll(store, {op.prefix}) /\ Returns(<<>>, <<>>)
            ELSE store' = store /\ Raises
    /\ UNCHANGED <<tvars, mvars, before, made>>

\* ---------------------------------------------------------------- rename_folder
\* rename_folder(bucket, old_prefix, new_prefix) is entered
rename_folder(old_prefix, new_prefix) ==
    /\ Entered("rename_folder")
    /\ op' = [IdleOp EXCEPT !.name = "rename_folder", !.pc = "list",
                            !.prefix = Normalize(old_prefix),
                            !.dst = Normalize(new_prefix)]
    /\ calls' = <<>>
    /\ UNCHANGED <<tvars, store, result, made>>

\* suffix = k[len(old_prefix):]; dst = new_prefix + suffix
DstKey(k, old_prefix, new_prefix) ==
    new_prefix \o Slice(k, Len(old_prefix), Len(k))

\* one round of the for loop of rename_folder
copy_key ==
    /\ op.pc = "copy"
    /\ LET k == op.keys[op.i + 1]
           dst == DstKey(k, op.prefix, op.dst)
       IN  \E ok \in CopyOutcomes(store, k, dst) :
             /\ Sent("copy_object", <<k, dst>>, ok)
             /\ IF ok
                THEN /\ store' = PutAt(store, dst, store[k])
                     /\ op' = IF op.i + 1 < Len(op.keys)
                              THEN [op EXCEPT !.i = op.i + 1]
                              ELSE [op EXCEPT !.i = 0, !.pc = DeletePc(op.keys)]
                     /\ result' = result
                ELSE store' = store /\ Raises
    /\ UNCHANGED <<tvars, mvars, before, made>>

\* ================================================================ MainWindow
\* ---------------------------------------------------------------- bounds
\* Length of what the user types after the bucket in the path box.
MaxPathLen == 1
\* Length of the names the user types in the rename and new folder dialogs.
MaxNameLen == 2
\* Number of rename, delete, paste and new folder commands the user gives in
\* a behaviour.
MaxMutations == 1

\* ---------------------------------------------------------------- inputs
\* the names typed in the dialogs
Names == {[j \in 1 .. n |-> "a"] : n \in 1 .. MaxNameLen}

\* the buckets a behaviour of the folder view can start with: a file, a
\* folder's marker, a file in the folder, or some of them
ViewKeys == {<<"a">>, <<"a", "/">>, <<"a", "/", "a">>}
Buckets == {Objects(S) : S \in SUBSET ViewKeys}

\* what is typed after "bucket/" in the path box
PathTexts == UNION {Strs(n) : n \in 0 .. MaxPathLen}

RECURSIVE RStrip(_)
\* key_or_prefix.rstrip("/")
RStrip(k) == IF EndsWithSlash(k) THEN RStrip(SubSeq(k, 1, Len(k) - 1)) ELSE k

\* src_key.split("/")[-1]
NameOf(k) == SubSeq(k, LastSlash(k) + 1, Len(k))

\* the rows of the table: _get_selected_items() for a selection of one row
Rows ==
    {[key |-> k, is_folder |-> TRUE] : k \in Range(table.folders)}
        \cup {[key |-> k, is_folder |-> FALSE] : k \in Range(table.files)}

\* the GUI thread is in no handler: it is blocked while a handler is inside an
\* S3Client call
GuiFree == gui.pc = "idle" /\ op.pc = "idle"

\* ---------------------------------------------------------------- what a mutation changed
\* the folder an object is listed in: the key up to its last "/"
Container(k) == SubSeq(k, 1, LastSlash(k))

\* the folder a folder is listed in
ParentOf(prefix) ==
    IF prefix = <<>> THEN <<>> ELSE Container(SubSeq(prefix, 1, Len(prefix) - 1))

\* one more mutation completed: its keys changed the listings of folders, and
\* the folders trees are gone with everything below them
Completed(folders, trees) ==
    [mut EXCEPT !.n = mut.n + 1, !.folders = folders, !.trees = trees]

\* the user gives one more command that changes the bucket
Given == [mut EXCEPT !.given = mut.given + 1]

\* ---------------------------------------------------------------- going to a folder
\* prefix = rest.strip(); if prefix and not prefix.endswith("/"): prefix += "/"
PathPrefix(rest) ==
    IF rest # <<>> /\ ~EndsWithSlash(rest) THEN rest \o <<"/">> ELSE rest

\* on_path_enter(), for the chosen bucket
on_path_enter(rest) ==
    /\ GuiFree
    /\ current_prefix' = PathPrefix(rest)
    /\ load_table_from_prefix(PathPrefix(rest))
    /\ UNCHANGED <<tvars, svars, clipboard, gui, mut>>
    /\ UNCHANGED <<nav, opened>>

\* on_table_double_clicked(index) on the row of a folder
on_table_double_clicked ==
    /\ GuiFree
    /\ \E r \in Rows :
         /\ r.is_folder
         /\ current_prefix' = r.key
         /\ load_table_from_prefix(r.key)
    /\ UNCHANGED <<tvars, svars, clipboard, gui, mut>>
    /\ UNCHANGED <<nav, opened>>

\* S3ListWorker.run(), mode "objects": client.list_objects(bucket, prefix) on
\* a client of its own; an exception ends the worker with the error signal,
\* which changes nothing.  at is the number of mutations completed when the
\* store answered.
list_worker_run ==
    /\ load.pc = "start"
    /\ \E ok \in BOOLEAN :
         IF ok
         THEN LET r == DelimitedPage(store, load.prefix)
              IN  load' = [load EXCEPT !.pc = "ready", !.folders = r.prefixes,
                                       !.files = FilesOf(r.contents, load.prefix),
                                       !.at = mut.n]
         ELSE load' = NoLoad
    /\ UNCHANGED <<tvars, svars, cache, current_prefix, table, clipboard, gui, mut>>
    /\ UNCHANGED <<nav, opened>>

\* self.cache[(bucket, prefix)] = (folders, files)
CachePut(c, prefix, entry) ==
    [p \in (DOMAIN c) \cup {prefix} |-> IF p = prefix THEN entry ELSE c[p]]

\* _on_objects_ready(bucket, prefix, folders, files, token), token being
\* _nav_token
on_objects_ready ==
    /\ load.pc = "ready"
    /\ GuiFree
    /\ cache' = CachePut(cache, load.prefix,
                         [folders |-> load.folders, files |-> load.files, at |-> load.at])
    /\ table' = [folders |-> load.folders, files |-> load.files]
    /\ load' = NoLoad
    /\ UNCHANGED <<tvars, svars, current_prefix, clipboard, gui, mut>>
    /\ UNCHANGED <<nav, opened>>

\* refresh_current(): self.cache.clear(); load_buckets_async(...);
\* load_table_from_prefix(current_bucket, current_prefix, force_refresh=True)
refresh_current ==
    /\ cache' = <<>>
    /\ load' = StartLoad(current_prefix)
    /\ UNCHANGED <<nav, opened>>

\* ---------------------------------------------------------------- clipboard
\* copy_selected()
copy_selected ==
    /\ GuiFree
    /\ \E r \in Rows : clipboard' = [items |-> <<r>>, cut |-> FALSE]
    /\ UNCHANGED <<tvars, svars, cache, current_prefix, table, load, gui, mut>>
    /\ UNCHANGED <<nav, opened>>

\* cut_selected()
cut_selected ==
    /\ GuiFree
    /\ \E r \in Rows : clipboard' = [items |-> <<r>>, cut |-> TRUE]
    /\ UNCHANGED <<tvars, svars, cache, current_prefix, table, load, gui, mut>>
    /\ UNCHANGED <<nav, opened>>

\* dst_key = f"{self.current_prefix}{name}"
PasteKey(src_key) == current_prefix \o NameOf(src_key)

\* paste_into_current() down to self.s3.copy_object(...): a folder on the
\* clipboard ends the handler with a message
paste_into_current ==
    /\ GuiFree
    /\ mut.given < MaxMutations
    /\ clipboard.items # <<>>
    /\ ~clipboard.items[1].is_folder
    /\ LET src == clipboard.items[1].key
           dst == PasteKey(src)
       IN  \E ok \in CopyOutcomes(store, src, dst) :
             IF ~ok
             THEN mut' = Given /\ UNCHANGED <<store, cache, load, gui>>
             ELSE /\ store' = PutAt(store, dst, store[src])
                  /\ IF clipboard.cut
                     THEN /\ gui' = [IdleGui EXCEPT !.pc = "paste", !.key = src, !.dst = dst]
                          /\ mut' = Given
                          /\ UNCHANGED <<cache, load>>
                     ELSE /\ invalidate_and_reload_current
                          /\ mut' = [Completed({Container(dst)}, {}) EXCEPT
                                        !.given = mut.given + 1]
                          /\ gui' = gui
    /\ UNCHANGED <<current_prefix, table, clipboard>>
    /\ UNCHANGED <<tvars, before, op, calls, result, made>>
    /\ UNCHANGED <<nav, opened>>

\* paste_into_current() from "if self.clipboard_cut:
\* self.s3.delete_object(src_bucket, src_key)" on
paste_delete ==
    /\ gui.pc = "paste"
    /\ \E ok \in BOOLEAN :
         IF ~ok
         THEN UNCHANGED <<store, cache, load, clipboard, mut>>
         ELSE /\ store' = DropAll(store, {gui.key})
              /\ clipboard' = NoClipboard
              /\ invalidate_and_reload_current
              /\ mut' = Completed({Container(gui.dst), Container(gui.key)}, {})
    /\ gui' = IdleGui
    /\ UNCHANGED <<tvars, before, op, calls, result, made, current_prefix, table>>
    /\ UNCHANGED <<nav, opened>>

\* ---------------------------------------------------------------- rename
\* parent = "/".join(key_or_prefix.rstrip("/").split("/")[:-1]);
\* parent = (parent + "/") if parent else ""; new_prefix = parent + new_name + "/"
RenamedPrefix(prefix, new_name) ==
    folder_of_key(RStrip(prefix)) \o new_name \o <<"/">>

\* parent = "/".join(key_or_prefix.split("/")[:-1]);
\* parent = (parent + "/") if parent else ""; new_key = parent + new_name
RenamedKey(key, new_name) == folder_of_key(key) \o new_name

\* rename_item(key_or_prefix, is_folder) down to the S3Client call
rename_item ==
    /\ GuiFree
    /\ mut.given < MaxMutations
    /\ \E r \in Rows, new_name \in Names :
         IF r.is_folder
         THEN /\ gui' = [pc |-> "rename", key |-> r.key, is_folder |-> TRUE,
                         dst |-> RenamedPrefix(r.key, new_name)]
              /\ rename_folder(r.key, RenamedPrefix(r.key, new_name))
         ELSE /\ gui' = [pc |-> "rename", key |-> r.key, is_folder |-> FALSE,
                         dst |-> RenamedKey(r.key, new_name)]
              /\ rename_file(r.key, RenamedKey(r.key, new_name))
    /\ mut' = Given
    /\ UNCHANGED <<cache, current_prefix, table, load, clipboard>>
    /\ UNCHANGED <<nav, opened>>

\* rename_item from the return of the S3Client call on: an exception ends the
\* handler with a message
rename_return ==
    /\ gui.pc = "rename"
    /\ op.pc = "idle"
    /\ IF result.status = "ok"
       THEN /\ invalidate_and_reload_current
            /\ mut' = IF gui.is_folder
                      THEN Completed({ParentOf(gui.key), ParentOf(gui.dst)}, {gui.key})
                      ELSE Completed({Container(gui.key), Container(gui.dst)}, {})
       ELSE UNCHANGED <<cache, load, mut>>
    /\ gui' = IdleGui
    /\ UNCHANGED <<tvars, svars, current_prefix, table, clipboard>>
    /\ UNCHANGED <<nav, opened>>

\* ---------------------------------------------------------------- delete
\* self.table_model.removeRow(r) for the selected row
RowsWithout(t, r) ==
    [folders |-> SelectSeq(t.folders, LAMBDA k : ~(r.is_folder /\ k = r.key)),
     files |-> SelectSeq(t.files, LAMBDA k : r.is_folder \/ k # r.key)]

\* delete_selected_items(), the dialog accepted, on the row of a folder, down
\* to self.s3.delete_prefix(...)
delete_selected_folder ==
    /\ GuiFree
    /\ mut.given < MaxMutations
    /\ \E r \in Rows :
         /\ r.is_folder
         /\ table' = RowsWithout(table, r)
         /\ gui' = [pc |-> "delete", key |-> r.key, is_folder |-> TRUE, dst |-> <<>>]
         /\ delete_prefix(r.key)
    /\ mut' = Given
    /\ UNCHANGED <<cache, current_prefix, load, clipboard>>
    /\ UNCHANGED <<nav, opened>>

\* delete_selected_items() from the return of delete_prefix on: an exception
\* ends the handler with a message and refresh_current()
delete_return ==
    /\ gui.pc = "delete"
    /\ op.pc = "idle"
    /\ IF result.status = "ok"
       THEN /\ invalidate_and_reload_current
            /\ mut' = Completed({ParentOf(gui.key)}, {gui.key})
       ELSE /\ refresh_current
            /\ mut' = mut
    /\ gui' = IdleGui
    /\ UNCHANGED <<tvars, svars, current_prefix, table, clipboard>>
    /\ UNCHANGED <<nav, opened>>

\* delete_selected_items(), the dialog accepted, on the row of a file:
\* self.s3.delete_object(self.current_bucket, key_or_prefix)
delete_selected_file ==
    /\ GuiFree
    /\ mut.given < MaxMutations
    /\ \E r \in Rows, ok \in BOOLEAN :
         /\ ~r.is_folder
         /\ table' = RowsWithout(table, r)
         /\ IF ok
            THEN /\ store' = DropAll(store, {r.key})
                 /\ invalidate_and_reload_current
                 /\ mut' = [Completed({Container(r.key)}, {}) EXCEPT
                               !.given = mut.given + 1]
            ELSE /\ store' = store
                 /\ refresh_current
                 /\ mut' = Given
    /\ UNCHANGED <<tvars, before, op, calls, result, made, current_prefix, clipboard, gui>>
    /\ UNCHANGED <<nav, opened>>

\* ---------------------------------------------------------------- new folder
\* new_prefix = f"{self.current_prefix}{name}/"
NewFolderPrefix(name) == current_prefix \o name \o <<"/">>

\* create_new_folder() with self.s3.create_folder(...)
create_new_folder ==
    /\ GuiFree
    /\ mut.given < MaxMutations
    /\ \E name \in Names :
         /\ gui' = [pc |-> "create", key |-> NewFolderPrefix(name), is_folder |-> TRUE,
                    dst |-> <<>>]
         /\ create_folder(NewFolderPrefix(name))
    /\ mut' = Given
    /\ UNCHANGED <<cache, current_prefix, table, load, clipboard>>
    /\ UNCHANGED <<nav, opened>>

\* create_new_folder() from the return of create_folder on: an exception ends
\* the handler with a message
create_return ==
    /\ gui.pc = "create"
    /\ op.pc = "idle"
    /\ IF result.status = "ok"
       THEN /\ invalidate_and_reload_current
            /\ mut' = Completed({ParentOf(gui.key)}, {})
       ELSE UNCHANGED <<cache, load, mut>>
    /\ gui' = IdleGui
    /\ UNCHANGED <<tvars, svars, current_prefix, table, clipboard>>
    /\ UNCHANGED <<nav, opened>>

\* ---------------------------------------------------------------- opening a file
\* the keys of files the user can open: object keys that are not markers
OpenKeys == {k \in AllKeys : ~EndsWithSlash(k)}

\* os.path.join(tempfile.gettempdir(), "S3BrowserApp")
tmp_dir == <<"S3BrowserApp">>

\* os.path.join(tmp_dir, os.path.basename(key))
local_path_of(key) == tmp_dir \o <<"/">> \o NameOf(key)

\* open_key(key) for the key of a file: the download is enqueued to the
\* temporary path made of the key's last component, and the task registered
\* for opening
open_file(key) ==
    /\ Connected
    /\ EnqueueWith(PRI_DOWNLOAD, "DOWNLOAD", NewTid)
    /\ openAfter' = Registered(openAfter, NewTid)
    /\ opened' = [opened EXCEPT ![seqNext] = [key |-> key, local_path |-> local_path_of(key)]]

\* ---------------------------------------------------------------- the navigation token
\* Number of S3ListWorkers started in one behaviour.
MaxRequests == 4

\* self._nav_token += 1; token = self._nav_token; w = S3ListWorker(...);
\* self._run_worker(w), the worker's signal connected to the handler that
\* fills view
Request(n, view) ==
    [n EXCEPT !.token = @ + 1,
              !.reqs = @ \cup {[view |-> view, token |-> n.token + 1]},
              !.latest[view] = n.token + 1]

\* _on_objects_ready, _on_children_ready, _on_buckets_ready for the worker of
\* request r: "if token != self._nav_token: return", else the view is filled
Ready(n, r) ==
    IF r.token # n.token THEN [n EXCEPT !.reqs = @ \ {r}]
    ELSE [n EXCEPT !.reqs = @ \ {r}, !.shown[r.view] = r.token]

\* what the handlers below leave alone: the listings themselves are
\* WindowSpec's, here is which response reaches which view
NavOnly ==
    UNCHANGED <<tvars, svars, cache, current_prefix, table, load, clipboard, gui, mut, opened>>

\* on_tree_clicked(index) on a bucket or a folder: load_children(item, bucket,
\* prefix, force=True), which pops the cache entry and starts a worker, then
\* load_table_from_prefix(bucket, prefix, force_refresh=False), which finds no
\* entry and starts another
on_tree_clicked ==
    /\ nav.token + 2 <= MaxRequests
    /\ nav' = Request(Request(nav, "children"), "table")
    /\ NavOnly

\* on_tree_expanded(index): load_children(item, bucket, prefix, force=True)
on_tree_expanded ==
    /\ nav.token + 1 <= MaxRequests
    /\ nav' = Request(nav, "children")
    /\ NavOnly

\* on_path_enter() and on_table_double_clicked() for a prefix the cache does
\* not hold: load_table_from_prefix starts a worker
table_requested ==
    /\ nav.token + 1 <= MaxRequests
    /\ nav' = Request(nav, "table")
    /\ NavOnly

\* refresh_current(): load_buckets_async(...), then, a bucket being chosen,
\* load_table_from_prefix(..., force_refresh=True)
refresh_both ==
    /\ nav.token + 2 <= MaxRequests
    /\ nav' = Request(Request(nav, "buckets"), "table")
    /\ NavOnly

\* invalidate_and_reload_current() with a bucket or folder current in the
\* tree: load_table_from_prefix(..., force_refresh=True), then
\* refresh_tree_node_for_current(), which calls load_children(..., force=True)
reload_both ==
    /\ nav.token + 2 <= MaxRequests
    /\ nav' = Request(Request(nav, "table"), "children")
    /\ NavOnly

\* the worker of request r emits its result and the GUI thread runs the
\* handler connected to it
list_ready(r) ==
    /\ r \in nav.reqs
    /\ nav' = Ready(nav, r)
    /\ NavOnly

\* the worker of request r emits error: a message box for the table and the
\* buckets, nothing for the children
list_failed(r) ==
    /\ r \in nav.reqs
    /\ nav' = [nav EXCEPT !.reqs = @ \ {r}]
    /\ NavOnly

\* ---------------------------------------------------------------- specifications
\* the transfer engine, with no S3Client call made from the GUI thread
Init == TransferInit /\ store = <<>> /\ StoreIdle /\ WindowInit

Next ==
    \/ enqueue_upload
    \/ enqueue_download
    \/ enqueue_open
    \/ pause
    \/ resume
    \/ clear_queue
    \/ \E w \in Seqs : relay_progress(w)
    \/ \E w \in Seqs : relay_status(w)
    \/ \E w \in Seqs : on_err(w)
    \/ \E w \in Seqs : on_done(w)
    \/ \E w \in Seqs : cleanup_worker(w)
    \/ shutdown_begin
    \/ \E w \in Seqs : shutdown_visit(w)
    \/ shutdown_return
    \/ \E w \in Seqs : run_start_raise(w)
    \/ \E w \in Seqs : run_start(w)
    \/ \E w \in Seqs, th \in CbThreads : cb_enter(w, th)
    \/ \E w \in Seqs, th \in CbThreads : cb_store(w, th)
    \/ \E w \in Seqs, th \in CbThreads : cb_emit(w, th)
    \/ \E w \in Seqs : gateway_raise(w)
    \/ \E w \in Seqs : gateway_return(w)

Spec == Init /\ [][Next]_vars

\* ---------------------------------------------------------------- one transfer under way
\* _seen and _total of a transfer under way, in units of 16 MiB like Sizes
MaxSeen == 60
MaxTotal == 50

\* A download that MainWindow enqueued on a fresh manager, some way into its
\* transfer: the callbacks so far added up to seen; the first of them emitted
\* (unless _total is 0), the later ones came within the throttle interval, and
\* the GUI thread has handled every signal posted so far.
Underway(seen, total) ==
    LET tid == CHOOSE t \in Tids : TRUE
        text == IF total # 0 THEN "Transferring" ELSE "Starting download"
        shown == IF total # 0 THEN Pct(1, total) ELSE 0
    IN  /\ pq = <<>>
        /\ seqNext = 1
        /\ active = ActivePut(<<>>, tid, 0)
        /\ allWorkers = {0}
        /\ paused = FALSE
        /\ ctl = [pc |-> "idle", todo |-> {}]
        /\ mailbox = [s \in Seqs |-> <<>>]
        /\ task = [s \in Seqs |-> IF s = 0 THEN [tid |-> tid, mode |-> "DOWNLOAD"]
                                            ELSE [tid |-> NoTid, mode |-> ""]]
        /\ wk = [s \in Seqs |->
                   IF s = 0
                   THEN [NewWorker("download") EXCEPT
                            !.pc = "gw", !.total = total, !.seen = seen,
                            !.last = IF total # 0 THEN 1 ELSE 0]
                   ELSE NoWorker]
        /\ cb = [s \in Seqs |-> [th \in CbThreads |-> IdleCb]]
        /\ started = <<>>
        /\ emitted = <<Updated(tid, "DOWNLOAD", -1, text)>>
        /\ lastPct = [t \in Tids |-> IF t = tid THEN shown ELSE -1]
        /\ terms = [t \in Tids |-> [done |-> 0, err |-> 0]]
        /\ ncb = 0
        /\ dest = [s \in Seqs |-> "absent"]
        /\ gcalls = [s \in Seqs |-> IF s = 0 THEN <<"get_object_size", "download_file">>
                                             ELSE <<>>]
        /\ openAfter = {}
        /\ rows = upsert(<<>>, tid, 0, text)
        /\ finals = [t \in Tids |-> <<>>]

PctInit ==
    /\ \E seen \in 1 .. MaxSeen, total \in 0 .. MaxTotal : Underway(seen, total)
    /\ store = <<>>
    /\ StoreIdle
    /\ WindowInit

\* the progress callbacks of that transfer and the GUI thread's handling of
\* what they emit
PctNext ==
    \/ \E w \in Seqs, th \in CbThreads : cb_enter(w, th)
    \/ \E w \in Seqs, th \in CbThreads : cb_store(w, th)
    \/ \E w \in Seqs, th \in CbThreads : cb_emit(w, th)
    \/ \E w \in Seqs : relay_progress(w)
    \/ \E w \in Seqs : relay_status(w)

PctSpec == PctInit /\ [][PctNext]_vars

\* The manager and its workers with the ids as uuid4 draws them: the enqueue
\* calls, the runs of the workers and the handling of their signals.  The
\* mode of a task plays no part in its id; the tasks here are uploads.
DrawNext ==
    \/ EnqueueDrawn(PRI_UPLOAD, "UPLOAD")
    \/ \E w \in Seqs : relay_progress(w)
    \/ \E w \in Seqs : relay_status(w)
    \/ \E w \in Seqs : on_err(w)
    \/ \E w \in Seqs : on_done(w)
    \/ \E w \in Seqs : cleanup_worker(w)
    \/ \E w \in Seqs : run_start_raise(w)
    \/ \E w \in Seqs : run_start(w)
    \/ \E w \in Seqs : gateway_return(w)

DrawSpec == Init /\ [][DrawNext]_vars

\* The transfer engine as MainWindow drives it: open_key, download_key and
\* dropEvent enqueue, and closeEvent / connect_or_disconnect shut down.
UiNext ==
    \/ open_key
    \/ download_key
    \/ dropEvent
    \/ \E w \in Seqs : relay_progress(w)
    \/ \E w \in Seqs : relay_status(w)
    \/ \E w \in Seqs : on_err(w)
    \/ \E w \in Seqs : on_done(w)
    \/ \E w \in Seqs : cleanup_worker(w)
    \/ shutdown_begin
    \/ \E w \in Seqs : shutdown_visit(w)
    \/ shutdown_return
    \/ \E w \in Seqs : run_start_raise(w)
    \/ \E w \in Seqs : run_start(w)
    \/ \E w \in Seqs, th \in CbThreads : cb_enter(w, th)
    \/ \E w \in Seqs, th \in CbThreads : cb_store(w, th)
    \/ \E w \in Seqs, th \in CbThreads : cb_emit(w, th)
    \/ \E w \in Seqs : gateway_raise(w)
    \/ \E w \in Seqs : gateway_return(w)

UiSpec == Init /\ [][UiNext]_vars

\* S3Client's object operations on a bucket no one else writes to, with the
\* transfer engine at rest
StoreInit == TransferInit /\ store \in Stores /\ StoreIdle /\ WindowInit

StoreNext ==
    \/ UNCHANGED mvars /\ \E prefix \in AllPrefixes : list_objects(prefix)
    \/ UNCHANGED mvars /\ \E prefix \in AllPrefixes : list_all_keys(prefix)
    \/ list_page
    \/ UNCHANGED mvars /\ delete_objects
    \/ delete_batch
    \/ UNCHANGED mvars /\ \E prefix \in AllPrefixes : create_folder(prefix)
    \/ UNCHANGED mvars /\ \E prefix \in AllPrefixes : delete_prefix(prefix)
    \/ delete_marker
    \/ UNCHANGED mvars
       /\ \E old_key \in AllKeys, new_key \in AllKeys : rename_file(old_key, new_key)
    \/ rename_file_copy
    \/ rename_file_delete
    \/ UNCHANGED mvars
       /\ \E old_prefix \in AllPrefixes, new_prefix \in AllPrefixes :
             rename_folder(old_prefix, new_prefix)
    \/ copy_key

StoreSpec == StoreInit /\ [][StoreNext]_vars

\* MainWindow's folder view on a bucket no one else writes to, with the
\* transfer engine at rest
WindowNext ==
    \/ \E rest \in PathTexts : on_path_enter(rest)
    \/ on_table_double_clicked
    \/ list_worker_run
    \/ on_objects_ready
    \/ copy_selected
    \/ cut_selected
    \/ paste_into_current
    \/ paste_delete
    \/ rename_item
    \/ rename_return
    \/ delete_selected_folder
    \/ delete_return
    \/ delete_selected_file
    \/ create_new_folder
    \/ create_return
    \/ list_page
    \/ delete_batch
    \/ delete_marker
    \/ rename_file_copy
    \/ rename_file_delete
    \/ copy_key

FolderViewInit == TransferInit /\ store \in Buckets /\ StoreIdle /\ WindowInit

WindowSpec == FolderViewInit /\ [][WindowNext]_vars

\* The scheduler left to run: tasks are enqueued, at most MaxTasks of them, and
\* pause(), clear_queue() and shutdown() are never called.  The progress
\* callbacks, which touch neither the queue nor the Running set, are left to
\* Spec; a transfer call here ends without having made one.
RunNext ==
    \/ enqueue_upload
    \/ enqueue_download
    \/ enqueue_open
    \/ \E w \in Seqs : relay_progress(w)
    \/ \E w \in Seqs : relay_status(w)
    \/ \E w \in Seqs : on_err(w)
    \/ \E w \in Seqs : on_done(w)
    \/ \E w \in Seqs : cleanup_worker(w)
    \/ \E w \in Seqs : run_start_raise(w)
    \/ \E w \in Seqs : run_start(w)
    \/ \E w \in Seqs : gateway_raise(w)
    \/ \E w \in Seqs : gateway_return(w)

\* a started QThread is scheduled: run() goes on to the transfer call or raises
WorkerRuns(w) == run_start(w) \/ run_start_raise(w)

\* the transfer call ends
TransferEnds(w) == gateway_return(w) \/ gateway_raise(w)

\* the GUI thread's event loop delivers the queued signals of worker w
Delivered(w) ==
    relay_progress(w) \/ relay_status(w) \/ on_err(w) \/ on_done(w) \/ cleanup_worker(w)

\* While a thread has a step to take or a signal waits in the event loop, one
\* of them is taken: the least that the operating system's scheduler and Qt's
\* event loop give.
RunSpec ==
    /\ Init
    /\ [][RunNext]_vars
    /\ WF_vars(\E w \in Seqs : WorkerRuns(w) \/ TransferEnds(w) \/ Delivered(w))

\* Uploads of files the user named, with no cancellation requested: the runs
\* of the workers, refused uploads among them, and the handling of their
\* signals.
UploadNext ==
    \/ dropEvent
    \/ \E w \in Seqs : relay_progress(w)
    \/ \E w \in Seqs : relay_status(w)
    \/ \E w \in Seqs : on_err(w)
    \/ \E w \in Seqs : on_done(w)
    \/ \E w \in Seqs : cleanup_worker(w)
    \/ \E w \in Seqs : run_start_raise(w)
    \/ \E w \in Seqs : run_start(w)
    \/ \E w \in Seqs : upload_raise(w)
    \/ \E w \in Seqs : gateway_return(w)

UploadSpec == Init /\ [][UploadNext]_vars

\* MainWindow's three views and the S3ListWorkers that fill them
TokenNext ==
    \/ on_tree_clicked
    \/ on_tree_expanded
    \/ table_requested
    \/ refresh_both
    \/ reload_both
    \/ \E r \in nav.reqs : list_ready(r)
    \/ \E r \in nav.reqs : list_failed(r)

TokenSpec == Init /\ [][TokenNext]_vars

\* Files opened from the window: open_key for keys the user picks, the runs of
\* the download workers and the handling of their signals.
OpenNext ==
    \/ \E key \in OpenKeys : open_file(key)
    \/ \E w \in Seqs : relay_progress(w)
    \/ \E w \in Seqs : relay_status(w)
    \/ \E w \in Seqs : on_err(w)
    \/ \E w \in Seqs : on_done(w)
    \/ \E w \in Seqs : cleanup_worker(w)
    \/ \E w \in Seqs : run_start_raise(w)
    \/ \E w \in Seqs : run_start(w)
    \/ \E w \in Seqs : gateway_raise(w)
    \/ \E w \in Seqs : gateway_return(w)

OpenSpec == Init /\ [][OpenNext]_vars

\* ---------------------------------------------------------------- vocabulary of the claims
Enqueued == {s \in Seqs : s < seqNext}
Queued == {pq[j].seq : j \in DOMAIN pq}
Running == DOMAIN active
Class(s) == PriorityOf(task[s].mode)
Terminals(t) == terms[t].done + terms[t].err
\* a done or error signal of worker s is still waiting for the GUI thread
TerminalPosted(s) == \E i \in DOMAIN mailbox[s] : mailbox[s][i].sig \in {"done", "error"}
Emitted(sig) == {emitted[i] : i \in {j \in DOMAIN emitted : emitted[j].sig = sig}}

\* C1: the number of tasks in TransferManager.active never exceeds
\* max_parallel, whatever enqueues, pauses, resumes and worker endings occur.
C1_ActiveBounded == Cardinality(Running) <= max_parallel

\* every slot taken while a task waits
C1_Witness == Cardinality(Running) = max_parallel /\ pq # <<>>

\* C2: when _pump admits a task, no task of a strictly higher priority class
\* (OPEN before DOWNLOAD before UPLOAD) is left in the queue, and of two tasks
\* admitted by one _pump the higher class is started first.
C2_PriorityAdmission ==
    /\ \A i \in DOMAIN started : \A q \in Queued : Class(started[i]) <= Class(q)
    /\ \A i, j \in DOMAIN started : i < j => Class(started[i]) <= Class(started[j])

\* a task was admitted past an older task of a lower class, which still waits
C2_Witness ==
    \E i \in DOMAIN started : \E q \in Queued :
        q < started[i] /\ Class(started[i]) < Class(q)

\* C3: inside one priority class workers are started in the order of the
\* enqueue calls: an admitted task is older than every queued task of its
\* class, and one _pump starts the tasks of a class oldest first.
C3_FifoInClass ==
    /\ \A i \in DOMAIN started : \A q \in Queued :
          Class(started[i]) = Class(q) => started[i] < q
    /\ \A i, j \in DOMAIN started :
          i < j /\ Class(started[i]) = Class(started[j]) => started[i] < started[j]

\* two tasks of one class were started by one _pump while a third still waits
C3_Witness ==
    /\ Len(started) = 2
    /\ Class(started[1]) = Class(started[2])
    /\ \E q \in Queued : Class(q) = Class(started[1])

C5_OneTerminal ==
    \A s \in Enqueued :
        LET t == task[s].tid
        IN  /\ Terminals(t) <= 1
            /\ wk[s].pc = "none" => Terminals(t) = 0
            /\ wk[s].pc = "ended" /\ ~TerminalPosted(s) => Terminals(t) = 1
            /\ wk[s].pc \in {"start", "gw"} => Terminals(t) = 0

\* one task ended with transfer_done and another with transfer_error
C5_Witness ==
    \E s1, s2 \in Enqueued :
        /\ terms[task[s1].tid] = [done |-> 1, err |-> 0]
        /\ terms[task[s2].tid] = [done |-> 0, err |-> 1]
        /\ wk[s1].pc = "ended" /\ wk[s2].pc = "ended"

\* C6: for each task the percent values of its transfer_updated events, the -1
\* of the status-only updates left out, never decrease from the Queued 0 on.
C6_PercentMonotone == [][\A t \in Tids : lastPct'[t] >= lastPct[t]]_vars

C9_PauseResume ==
    [][/\ paused' => started' = <<>> /\ active' \in [DOMAIN active' -> Range(active)]
       /\ pause => wk' = wk /\ active' = active /\ pq' = pq
       /\ paused /\ (\E w \in Seqs : on_done(w) \/ on_err(w)) =>
             \E t \in Tids : Terminals(t)' = Terminals(t) + 1
       /\ paused /\ ~paused' =>
             /\ pq' = <<>> \/ Cardinality(DOMAIN active') = max_parallel
             /\ Len(started') = Len(pq) - Len(pq')]_vars

\* a slot was freed under pause and stays free while a task waits
C9_Witness ==
    /\ paused
    /\ ctl.pc = "idle"
    /\ Emitted("transfer_done") # {}
    /\ pq # <<>>
    /\ Cardinality(Running) < max_parallel

\* C10: shutdown() sets the pause flag and empties the queue without emitting
\* anything; a task that never got a worker has its Queued update and nothing
\* else, no transfer_done and no transfer_error; and the loop requests
\* interruption of every worker it finds running, so that when shutdown()
\* returns every worker still running has been asked to stop.
C10_Shutdown ==
    /\ [][/\ shutdown_begin => paused' /\ pq' = <<>> /\ emitted' = <<>>
          /\ \A w \in Seqs : shutdown_visit(w) /\ IsRunning(w) => wk'[w].intr
          /\ shutdown_return => \A w \in Seqs : IsRunning(w) => wk[w].intr]_vars
    /\ [](\A s \in Enqueued :
             wk[s].pc = "none" =>
                /\ Terminals(task[s].tid) = 0
                /\ lastPct[task[s].tid] = 0
                /\ \A i \in DOMAIN emitted :
                      emitted[i].tid = task[s].tid => emitted[i].status = "Queued")
    /\ [](ctl.pc = "shutdown" => paused /\ pq = <<>>)

\* shutdown() has returned: a queued task was dropped and a worker that was
\* running is asked to stop
C10_Witness ==
    /\ ctl.pc = "idle"
    /\ paused
    /\ pq = <<>>
    /\ \E s \in Enqueued : wk[s].pc = "none"
    /\ \E w \in Seqs : IsRunning(w) /\ wk[w].intr

\* a download worker that saw the cancellation request leaves the transfer
\* call and ends its run in this step
CancelledDownloadEnds(w) ==
    /\ wk[w].pc = "gw"
    /\ wk[w].mode = "download"
    /\ wk[w].cancel
    /\ wk'[w].pc = "ended"

\* the error signal of a cancelled run of worker s waits for the GUI thread
CancelReported(s) ==
    \E i \in DOMAIN mailbox[s] :
        mailbox[s][i].sig = "error" /\ mailbox[s][i].s = "Transfer cancelled"

\* C11 as stated: when a download worker has observed a cancellation request
\* during the transfer, no file exists at its destination path once its run
\* has ended.
C11_NoResidualFile ==
    [][\A w \in Seqs : CancelledDownloadEnds(w) => dest'[w] = "absent"]_vars

\* C11 as amended: when a download worker has observed a cancellation request
\* during the transfer, then once its run has ended no file exists at its
\* destination path unless os.remove was refused (the error is swallowed), and
\* the file is gone before the "Transfer cancelled" failure reaches the GUI
\* thread.
C11_RemovedUnlessLocked ==
    /\ [][\A w \in Seqs : CancelledDownloadEnds(w) => dest'[w] \in {"absent", "locked"}]_vars
    /\ [](\A s \in Seqs :
             CancelReported(s) /\ WorkerMode(task[s].mode) = "download" =>
                dest[s] \in {"absent", "locked"})

\* a cancelled download has ended, its failure is on its way and no file is left
C11_Witness ==
    \E s \in Seqs :
        /\ CancelReported(s)
        /\ WorkerMode(task[s].mode) = "download"
        /\ wk[s].pc = "ended"
        /\ dest[s] = "absent"

\* ---------------------------------------------------------------- vocabulary of the S3Client claims
\* the latest S3Client call was name and it has returned, or raised
Returned(name) == op.name = name /\ op.pc = "idle" /\ result.status = "ok"
Raised(name) == op.name = name /\ op.pc = "idle" /\ result.status = "raised"
\* the keys that began with prefix when the call was made
UnderBefore(prefix) == {k \in DOMAIN before : StartsWith(k, prefix)}
\* the requests of some kinds in the log, in order
CallsOf(apis) == SelectSeq(calls, LAMBDA c : c.api \in apis)
\* the latest request failed
LastFailed == calls # <<>> /\ ~calls[Len(calls)].ok
\* key k is as it was before the call
Intact(k) == k \in DOMAIN store /\ store[k] = before[k]

\* C12: in rename_folder no delete request, of a source key or of the old
\* marker, is sent before every listed key was copied successfully; and when
\* the copy of a key fails the call fails and every key that was under the old
\* prefix before the call is still there with its content.
C12_CopyBeforeDelete ==
    op.name = "rename_folder" =>
       /\ CallsOf({"delete_objects", "delete_object"}) # <<>> =>
             /\ \A j \in DOMAIN calls : calls[j].api = "copy_object" => calls[j].ok
             /\ Len(CallsOf({"copy_object"})) = Len(op.keys)
       /\ LastFailed /\ calls[Len(calls)].api = "copy_object" =>
             /\ Raised("rename_folder")
             /\ \A k \in UnderBefore(op.prefix) : Intact(k)

\* C13: when rename_folder returns without error, for every key k that was
\* under the old prefix before the call the object at the new prefix followed
\* by k's suffix has the content k had, for every pair of prefixes, nested
\* ones and equal ones included.
C13_RenamePreservesContent ==
    Returned("rename_folder") =>
       \A k \in UnderBefore(op.prefix) :
           LET dst == op.dst \o Slice(k, Len(op.prefix), Len(k))
           IN  dst \in DOMAIN store /\ store[dst] = before[k]

RECURSIVE Flatten(_)
\* the key lists of a sequence of requests, one after the other
Flatten(log) == IF log = <<>> THEN <<>> ELSE Head(log).keys \o Flatten(Tail(log))

\* C14: delete_objects over n keys sends ceil(n / 1000) batch requests, each
\* with at most 1000 keys, whose key lists one after the other are the input;
\* 2500 keys go out as 1000, 1000 and 500, and an empty input sends nothing.
C14_BatchCalls ==
    op.name = "delete_objects" =>
       LET log == CallsOf({"delete_objects"})
           sent == Flatten(log)
       IN  /\ log = calls
           /\ \A j \in DOMAIN log : Len(log[j].keys) <= 1000
           /\ sent = Slice(op.keys, 0, Len(sent))
           /\ Returned("delete_objects") =>
                 /\ sent = op.keys
                 /\ Len(log) = (Len(op.keys) + 999) \div 1000
                 /\ Len(op.keys) = 2500 =>
                       <<Len(log[1].keys), Len(log[2].keys), Len(log[3].keys)>>
                          = <<1000, 1000, 500>>
           /\ op.keys = <<>> => calls = <<>>

\* 2500 keys, two of them in the bucket, were deleted in three requests
C14_Witness ==
    /\ Returned("delete_objects")
    /\ Len(op.keys) = 2500
    /\ Len(calls) = 3
    /\ DOMAIN before # {}
    /\ DOMAIN store = {}

\* C15: delete_objects reports success only if every batch was deleted; when
\* batch i fails, the failure it reports names the keys of batch i and of the
\* later batches as unprocessed, and the keys of the batches before i are
\* deleted.
C15_BatchFailureReport ==
    op.name = "delete_objects" =>
       /\ Returned("delete_objects") =>
             \A j \in DOMAIN op.keys : op.keys[j] \notin DOMAIN store
       /\ Raised("delete_objects") =>
             /\ result.keys = Slice(op.keys, (Len(calls) - 1) * 1000, Len(op.keys))
             /\ \A j \in 1 .. ((Len(calls) - 1) * 1000) : op.keys[j] \notin DOMAIN store

\* C16: in rename_file, when the copy succeeds and the delete of the old key
\* then fails, the call ends with a warning-level outcome of its own,
\* DanglingSource, not with the hard failure a failed copy ends with, and the
\* object exists at the old key and at the new key.
C16_DanglingSource ==
    /\ op.name = "rename_file"
    /\ Len(calls) = 2
    /\ calls[1].ok
    /\ ~calls[2].ok
    => /\ result.status = "warning"
       /\ result.error = "DanglingSource"
       /\ op.prefix \in DOMAIN store
       /\ op.dst \in DOMAIN store

\* the positions in the log of the requests of some kinds
PositionsOf(apis) == {j \in DOMAIN calls : calls[j].api \in apis}

\* C17: delete_prefix lists the keys under the normalized prefix, then deletes
\* them in batches, then deletes the marker, in that order; with no other
\* writer it returns without error only if no key that begins with the prefix,
\* the marker included, is left, and it never returns normally after a delete
\* step that failed.
C17_DeletePrefix ==
    op.name = "delete_prefix" =>
       /\ EndsWithSlash(op.prefix)
       /\ \A i \in PositionsOf({"list_objects_v2"}) :
             \A j \in PositionsOf({"delete_objects", "delete_object"}) : i < j
       /\ \A i \in PositionsOf({"delete_objects"}) :
             \A j \in PositionsOf({"delete_object"}) : i < j
       /\ Returned("delete_prefix") =>
             /\ \A k \in DOMAIN store : ~StartsWith(k, op.prefix)
             /\ \A j \in DOMAIN calls : calls[j].ok /\ calls[j].errors = {}

\* C18: create_folder is idempotent and normalizing.  When it returns, the
\* bucket has a zero-byte object at the prefix with one "/" at its end, the
\* same key whether the prefix was given with or without the "/", and every
\* other key is as it was; and a further call for the same folder, in either
\* spelling, leaves the bucket as the call before left it.
C18_CreateFolderIdempotent ==
    Returned("create_folder") =>
       LET key == IF EndsWithSlash(op.prefix) THEN op.prefix ELSE op.prefix \o <<"/">>
       IN  /\ key \in DOMAIN store
           /\ store[key] = <<>>
           /\ DOMAIN store = DOMAIN before \cup {key}
           /\ \A k \in DOMAIN store \ {key} : Intact(k)
           /\ \A j \in DOMAIN made : made[j] = key
           /\ Len(made) > 1 => store = before

\* the folder was created a second time, now spelled without the "/", in a
\* bucket that has another object
C18_Witness ==
    /\ Returned("create_folder")
    /\ Len(made) = 2
    /\ ~EndsWithSlash(op.prefix)
    /\ store = before
    /\ Cardinality(DOMAIN store) > 1

\* C19: list_all_keys returns exactly the keys of every page the store serves
\* for the prefix, in page order, none skipped and none twice, and it is done
\* after one list request per page.
C19_ListAllKeys ==
    op.name = "list_all_keys" =>
       LET under == UnderBefore(op.prefix)
           pages == IF under = {} THEN 1
                    ELSE (Cardinality(under) + PageSize - 1) \div PageSize
       IN  /\ \A j \in DOMAIN calls : calls[j].api = "list_objects_v2"
           /\ Len(calls) <= pages
           /\ op.pc = "list" =>
                 /\ \A j \in DOMAIN calls : calls[j].ok
                 /\ Len(op.keys) = PageSize * Len(calls)
                 /\ Len(calls) < pages
           /\ Returned("list_all_keys") =>
                 /\ Len(calls) = pages
                 /\ {result.keys[j] : j \in DOMAIN result.keys} = under
                 /\ Len(result.keys) = Cardinality(under)
                 /\ \A i, j \in DOMAIN result.keys :
                       i < j => KeyLess(result.keys[i], result.keys[j])

\* a listing under a prefix that took two pages
C19_Witness ==
    /\ Returned("list_all_keys")
    /\ Len(calls) = 2
    /\ Len(result.keys) > PageSize
    /\ op.prefix # <<>>

\* C20: the files result of list_objects(bucket, prefix) never has an entry
\* whose key is the queried prefix (the folder's marker), whatever the bucket
\* holds.
C20_MarkerNotListed ==
    Returned("list_objects") =>
       \A j \in DOMAIN result.keys : result.keys[j] # op.prefix

\* the listing of a folder whose marker object exists
C20_Witness ==
    /\ Returned("list_objects")
    /\ EndsWithSlash(op.prefix)
    /\ op.prefix \in DOMAIN store
    /\ Cardinality(DOMAIN store) = MaxObjects

\* ---------------------------------------------------------------- MainWindow and the transfer engine
\* the tasks registered for open-after-completion that are not done yet
OpenRegistered == {s \in Enqueued : task[s].tid \in openAfter}

\* C22: every task registered for open-after-completion by open_key is
\* enqueued with mode OPEN and priority class 0, and so no DOWNLOAD or UPLOAD
\* task is admitted while a registered task waits in the queue.
C22_OpenKeyFirst ==
    /\ \A s \in OpenRegistered : task[s].mode = "OPEN" /\ Class(s) = PRI_OPEN
    /\ \A i \in DOMAIN started : \A q \in Queued \cap OpenRegistered :
          started[i] \in OpenRegistered

\* C23: every task gets exactly one terminal status among its
\* transfer_updated events, one of Done, Failed, Cancelled: never two, exactly
\* one once its terminal notification was emitted, and a task whose transfer
\* was cancelled is reported Cancelled and never Failed.
C23_OneTerminalStatus ==
    \A s \in Enqueued :
        LET t == task[s].tid
        IN  /\ Len(finals[t]) <= 1
            /\ Terminals(t) = 1 => Len(finals[t]) = 1
            /\ CancelReported(s) => "Failed" \notin Range(finals[t])
            /\ "Cancelled" \in Range(finals[t]) => "Failed" \notin Range(finals[t])

ExactPct(seen, total) ==
    LET raw == (seen * 100) \div total
    IN  IF raw < 0 THEN 0 ELSE IF raw > 100 THEN 100 ELSE raw

\* the percentages worker w has computed and not yet emitted, or has emitted
\* and the GUI thread has not yet relayed
PendingPcts(w) ==
    {cb[w][th].pct : th \in {x \in CbThreads : cb[w][x].pc = "emit"}}
        \cup {mailbox[w][i].p : i \in {j \in DOMAIN mailbox[w] : mailbox[w][j].sig = "progress"}}

\* C25: every transfer_updated event carries a percent in 0..100 or -1; the
\* percentage a callback computes is the integer part of
\* bytesSeen * 100 / total clamped to 0..100, also when bytesSeen exceeds
\* total; and with a total of 0 the callbacks compute and emit nothing.
C25_Percent ==
    /\ \A e \in Emitted("transfer_updated") : e.pct \in (0 .. 100) \cup {-1}
    /\ \A w \in Seqs : \A th \in CbThreads :
          cb[w][th].pc = "emit" =>
             cb[w][th].pct = ExactPct(cb[w][th].loaded + cb[w][th].amt, wk[w].total)
    /\ \A w \in Seqs : wk[w].pc = "gw" /\ wk[w].total = 0 => PendingPcts(w) = {}

\* the events of the step just taken that concern task t are all
\* transfer_updated events with percent -1, and there is at least one
StatusOnlyStep(t) ==
    /\ \E i \in DOMAIN emitted' : emitted'[i].tid = t
    /\ \A i \in DOMAIN emitted' :
          emitted'[i].tid = t =>
             emitted'[i].sig = "transfer_updated" /\ emitted'[i].pct = -1

\* C26: an update with percent -1 changes only the status text of the task's
\* row in the transfers table: the Progress cell is left as it was, and so the
\* progress displayed for a task never decreases.
C26_StatusOnlyUpdate ==
    [][\A t \in DOMAIN rows :
          /\ StatusOnlyStep(t) => rows'[t].progress = rows[t].progress
          /\ rows'[t].progress >= rows[t].progress]_vars

\* C27: the scheduler is work-conserving.  Whenever it is not paused, and so
\* after every enqueue, every resume and every handled terminal event, the
\* queue is empty or the Running set holds exactly max_parallel tasks.
C27_WorkConserving ==
    ~paused => pq = <<>> \/ Cardinality(Running) = max_parallel

\* resume() has filled every slot from the queue and a task still waits
C27_Witness ==
    /\ ~paused
    /\ Len(started) = max_parallel
    /\ pq # <<>>
    /\ emitted = <<>>
    /\ \A t \in Running : wk[active[t]].pc = "start"

\* worker w has posted its done signal
DonePosted(w) == \E i \in DOMAIN mailbox[w] : mailbox[w][i].sig = "done"

\* the run of worker w ends in this step
RunEnds(w) == wk[w].pc = "gw" /\ wk'[w].pc = "ended"

\* what the progress callback does with an interruption request, whichever
\* way the run then ends: only a callback entered after the request sets
\* _cancel_requested, every such callback does, and nothing is reported as
\* cancelled while the transfer call is still running
CancelSeenInCallback ==
    /\ [][\A w \in Seqs :
            /\ wk'[w].cancel /\ ~wk[w].cancel =>
                  wk[w].intr /\ wk[w].pc = "gw" /\ ncb' = ncb + 1
            /\ wk[w].cancel /\ wk'[w].pc = "gw" => wk'[w].cancel
            /\ \A th \in CbThreads : cb_enter(w, th) /\ wk[w].intr => wk'[w].cancel]_vars
    /\ [](\A w \in Seqs : CancelReported(w) => wk[w].pc = "ended" /\ ~DonePosted(w))

\* C28 as stated: a worker ends with the failure "Transfer cancelled" if and
\* only if a progress callback ran after interruption was requested; it then
\* never emits done; the failure is raised only once the transfer call is
\* over; and a run whose request came after its last callback ends with done.
C28_CancelIffCallback ==
    /\ CancelSeenInCallback
    /\ [][\A w \in Seqs :
            RunEnds(w) =>
               /\ CancelReported(w)' <=> wk[w].cancel
               /\ wk[w].intr /\ ~wk[w].cancel => DonePosted(w)']_vars

\* C28 as amended: the same for a transfer call that returns.  A transfer
\* call that raises ends the run with its own error, whether or not a
\* callback saw the request; and a download whose request came after the last
\* callback ends with done if its file is on disk.
C28_CancelIffCallbackOnReturn ==
    /\ CancelSeenInCallback
    /\ [][\A w \in Seqs :
            /\ gateway_return(w) =>
                  /\ CancelReported(w)' <=> wk[w].cancel
                  /\ wk[w].intr /\ ~wk[w].cancel =>
                        DonePosted(w)' \/ (wk[w].mode = "download" /\ dest'[w] = "absent")
            /\ gateway_raise(w) => ~CancelReported(w)' /\ ~DonePosted(w)']_vars

\* an upload's callback saw the request, the call returned and the run ended
\* with the cancellation failure, still to be handled
C28_Witness ==
    \E s \in Seqs :
        /\ CancelReported(s)
        /\ task[s].mode = "UPLOAD"
        /\ wk[s].pc = "ended"
        /\ ncb > 0
        /\ ~DonePosted(s)

\* the source-missing failure of worker s waits for the GUI thread
SourceMissingReported(s) ==
    \E i \in DOMAIN mailbox[s] :
        mailbox[s][i].sig = "error" /\ mailbox[s][i].s = "Local file not found for upload"

\* C29: an upload whose local file does not exist when the worker starts
\* fails with the source-missing error without any S3Client call (no
\* upload_file, no size lookup, no progress callback), and the bucket is as it
\* was.
C29_SourceMissing ==
    /\ [][\A w \in Seqs :
            run_start_raise(w) /\ wk[w].mode = "upload" =>
               /\ SourceMissingReported(w)'
               /\ gcalls'[w] = <<>>
               /\ store' = store
               /\ ncb' = ncb]_vars
    /\ [](\A s \in Seqs :
            SourceMissingReported(s) =>
               /\ wk[s].pc = "ended"
               /\ gcalls[s] = <<>>
               /\ KeyOfTask(s) \notin DOMAIN store
               /\ ~DonePosted(s))

\* one upload has failed for want of its file while another has put its
\* object into the bucket
C29_Witness ==
    \E s \in Seqs :
        /\ SourceMissingReported(s)
        /\ task[s].mode = "UPLOAD"
        /\ store # <<>>
        /\ \E u \in Seqs : "upload_file" \in Range(gcalls[u])

\* C30: the ids _enqueue assigns are unique: no two tasks of one manager have
\* the same id, and so no two tasks whose workers were started and whose
\* terminal event is still to come share an entry of the Running set.
C30_UniqueIds ==
    /\ \A s1, s2 \in Enqueued : task[s1].tid = task[s2].tid => s1 = s2
    /\ \A s \in Enqueued :
          IsRunning(s) => task[s].tid \in Running /\ active[task[s].tid] = s

\* the latest completed mutation affected prefix p: it changed a key listed
\* in p, or it deleted or renamed a folder that p is, or is below
Affected(p) ==
    \/ p \in mut.folders
    \/ \E f \in mut.trees : StartsWith(p, f)

\* C21: after any completed mutation (delete of a file or folder, rename of a
\* file or folder, paste, folder create), the listing cache holds no entry
\* produced before the mutation for a prefix it affected: the folder
\* containing a changed key, every prefix at or below a deleted or renamed
\* folder, the source folder of a cut-paste.
C21_CacheInvalidated ==
    \A p \in DOMAIN cache : Affected(p) => cache[p].at >= mut.n

\* a step of a worker thread: run(), a progress callback, or the transfer
\* call ending.  Each of them posts a signal or moves a callback on, and no
\* step of the control thread does.
WorkerStep ==
    \/ ncb' # ncb
    \/ \E w \in Seqs : Len(mailbox'[w]) > Len(mailbox[w]) \/ cb'[w] # cb[w]

\* the GUI thread handles the done or error signal of a worker
TerminalHandled ==
    \E w \in Seqs :
       /\ mailbox[w] # <<>>
       /\ Head(mailbox[w]).sig \in {"done", "error"}
       /\ mailbox'[w] = Tail(mailbox[w])

\* C31: the queue and the Running set are changed only by steps of the
\* control thread, one at a time.  A step of a worker thread leaves both as
\* they are and only posts signals; a step that changes either runs while no
\* other control operation is under way and posts nothing; and the handling
\* of a done or error signal takes the signal of one worker, is not an
\* enqueue, and does not run inside shutdown().
C31_Serialized ==
    [][/\ WorkerStep => pq' = pq /\ active' = active
       /\ (pq' # pq \/ active' # active) =>
             /\ ctl.pc = "idle"
             /\ \A w \in Seqs : Len(mailbox'[w]) <= Len(mailbox[w])
       /\ TerminalHandled =>
             /\ ctl.pc = "idle"
             /\ seqNext' = seqNext
             /\ Cardinality({w \in Seqs : mailbox'[w] # mailbox[w]}) = 1]_vars

\* a terminal signal waits for the GUI thread while shutdown() is inside its
\* loop and another worker is still in its transfer call
C31_Witness ==
    /\ ctl.pc = "shutdown"
    /\ \E w \in Seqs : TerminalPosted(w)
    /\ \E w \in Seqs : wk[w].pc = "gw"

\* C32: shutdown() sets the pause flag, and while the flag stays set, that is
\* until resume(), no worker is started: no step creates or starts one, a slot
\* freed by a worker that finishes is not refilled, a task enqueued goes to the
\* queue and stays there until the queue is cleared, and a task that never got
\* a worker has no terminal event.
C32_NoStartAfterShutdown ==
    /\ [][/\ (ctl'.pc = "shutdown" /\ ctl.pc = "idle") => paused'
          /\ (paused \/ ctl'.pc = "shutdown") /\ paused' =>
                /\ started' = <<>>
                /\ allWorkers' \subseteq allWorkers
                /\ Running' \subseteq Running
                /\ \A s \in Seqs : wk[s].pc = "none" => wk'[s].pc = "none"
                /\ seqNext' # seqNext => seqNext \in Queued'
                /\ \A s \in Queued : s \in Queued' \/ pq' = <<>>]_vars
    /\ [](\A s \in Queued : wk[s].pc = "none" /\ Terminals(task[s].tid) = 0)

\* shutdown() has returned with two workers asked to stop; a task was enqueued
\* since; one of the two has just had its terminal signal handled, and its slot
\* stays free while the task waits
C32_Witness ==
    /\ paused
    /\ ctl.pc = "idle"
    /\ pq # <<>>
    /\ Emitted("transfer_done") \cup Emitted("transfer_error") # {}
    /\ Cardinality(Running) < max_parallel
    /\ \E w \in Seqs : IsRunning(w) /\ wk[w].intr

C35_CancelledOnlyIfRequested ==
    [][\A w \in Seqs :
         on_err(w) /\ (\E i \in DOMAIN emitted' : emitted'[i].status = "Cancelled") =>
            Head(mailbox[w]).s = "Transfer cancelled"]_vars

\* C36: a listing response is applied to the table only when it is the
\* listing of current_prefix, so that the table shows the folder the user is
\* in once nothing is in flight; this also when the user went on to a folder
\* whose listing was in the cache, which starts no worker and leaves the
\* navigation token as it was.
C36_ResponseOfCurrentPrefix ==
    [][on_objects_ready => load.prefix = current_prefix]_vars

\* C37: when the response to the request made last for a view arrives, it is
\* applied to that view, the table, the tree node or the tree, also when a
\* request for another view was made after it.
C37_LatestPerViewApplied ==
    [][\A r \in nav.reqs :
         list_ready(r) /\ r.token = nav.latest[r.view] => nav'.shown[r.view] = r.token]_vars

\* the files directly under prefix in bucket st: the keys with no "/" after
\* the prefix, the marker of the prefix itself apart
FilesUnder(st, prefix) ==
    {k \in DOMAIN st : StartsWith(k, prefix) /\ k # prefix /\ SlashAt(k, Len(prefix)) = 0}

\* the folders directly under prefix in bucket st
FoldersUnder(st, prefix) ==
    {Slice(k, 0, SlashAt(k, Len(prefix))) :
        k \in {j \in DOMAIN st : StartsWith(j, prefix) /\ SlashAt(j, Len(prefix)) # 0}}

\* C38: list_objects(bucket, prefix) returns every file and every folder
\* directly under the prefix, whatever the number of pages the store serves
\* the single-level listing in.
C38_ListsEveryChild ==
    Returned("list_objects") =>
       /\ Range(result.keys) = FilesUnder(store, op.prefix)
       /\ Range(result.folders) = FoldersUnder(store, op.prefix)

\* the task with seq s is in the queue or has a worker in the Running set
Live(s) == s \in Queued \/ (task[s].tid \in Running /\ active[task[s].tid] = s)

\* C39: two tasks that open_key made for different keys and that are queued
\* or running at the same time have different local paths.
C39_DistinctTempPaths ==
    \A s1, s2 \in Enqueued :
       Live(s1) /\ Live(s2) /\ opened[s1].key # opened[s2].key =>
          opened[s1].local_path # opened[s2].local_path

\* C40: an upload that ends with the cancellation failure has not written its
\* object.  The bucket of Spec starts empty and every task has a key of its
\* own, so the object at the task's key is as before the task exactly when the
\* key does not exist.
C40_CancelledUploadWroteNothing ==
    \A s \in Enqueued :
       task[s].mode = "UPLOAD" /\ CancelReported(s) => KeyOfTask(s) \notin DOMAIN store

====
